---------------------------- MODULE Spec2Model ----------------------------
(***************************************************************************)
(* A model of the shiva document converter: the PDF ingestion engine       *)
(* (lib/src/pdf.rs), the plain-text transformer (lib/src/text.rs), the     *)
(* image codec used by the examples and the CLI, and PDF generation.       *)
(*                                                                         *)
(* Text is a sequence of Unicode code points, a byte string a sequence of  *)
(* numbers in 0..255.  An absent value (Rust's None) is the string "None". *)
(***************************************************************************)
EXTENDS Integers, Sequences, FiniteSets, TLC

None == "None"

(***************************************************************************)
(* Bounds of the exploration.                                              *)
(***************************************************************************)
\* longest byte string of a Show-text operand in the decoder specification
MaxStrLen == 3
\* operators interpreted on the page in the operator specification
MaxOps == 5

(***************************************************************************)
(* Sequences and strings.                                                  *)
(***************************************************************************)
SeqsUpTo(S, n) == UNION {[1..k -> S] : k \in 0..n}

Last(s) == s[Len(s)]

Front(s) == SubSeq(s, 1, Len(s) - 1)

\* str::contains(pattern) for a non-empty pattern
Contains(s, sub) ==
    \E i \in 1..(Len(s) - Len(sub) + 1) : SubSeq(s, i, i + Len(sub) - 1) = sub

\* char::is_whitespace: the code points with the White_Space property
IsWhitespace(c) ==
    \/ c \in 9..13
    \/ c \in {32, 133, 160, 5760, 8232, 8233, 8239, 8287, 12288}
    \/ c \in 8192..8202

\* char::is_alphanumeric (Alphabetic or Numeric), for the code points the
\* byte alphabets of this model can produce: ASCII, Latin-1, Latin
\* Extended-A/B, the Arabic letters, CJK Extension A and the Yi syllables.
IsAlphanumeric(c) ==
    \/ c \in 48..57 \/ c \in 65..90 \/ c \in 97..122
    \/ c \in {170, 178, 179, 181, 185, 186, 188, 189, 190}
    \/ c \in 192..214 \/ c \in 216..246 \/ c \in 248..591
    \/ c \in 1568..1610
    \/ c \in 13312..19903
    \/ c \in 40960..42124

\* str::trim().is_empty()
IsBlank(s) == \A i \in 1..Len(s) : IsWhitespace(s[i])

\* chars().any(|c| c.is_alphanumeric() || c.is_whitespace())
HasReadableChar(s) ==
    \E i \in 1..Len(s) : IsAlphanumeric(s[i]) \/ IsWhitespace(s[i])

\* "Unimplemented"
Unimplemented == <<85, 110, 105, 109, 112, 108, 101, 109, 101, 110, 116, 101, 100>>

\* "Identity-H"
IdentityH == <<73, 100, 101, 110, 116, 105, 116, 121, 45, 72>>

(***************************************************************************)
(* UTF-8 and UTF-16, as the Rust standard library decodes them.            *)
(***************************************************************************)
IsCont(b) == b \in 128..191

\* the number of bytes of the sequence a lead byte announces (0: no lead)
Utf8Width(b) ==
    IF b < 128 THEN 1
    ELSE IF b \in 194..223 THEN 2
    ELSE IF b \in 224..239 THEN 3
    ELSE IF b \in 240..244 THEN 4
    ELSE 0

\* the range of the first continuation byte (no overlong form, no surrogate,
\* nothing above U+10FFFF)
Utf8SecondOk(lead, b) ==
    IF lead = 224 THEN b \in 160..191
    ELSE IF lead = 237 THEN b \in 128..159
    ELSE IF lead = 240 THEN b \in 144..191
    ELSE IF lead = 244 THEN b \in 128..143
    ELSE IsCont(b)

\* the length of the longest well-formed prefix of the sequence starting at i
\* (the whole sequence when it is well formed)
Utf8Good(bytes, i) ==
    LET w == Utf8Width(bytes[i])
        ok(k) == /\ i + k <= Len(bytes)
                 /\ IF k = 1 THEN Utf8SecondOk(bytes[i], bytes[i + 1])
                    ELSE IsCont(bytes[i + k])
    IN  IF w = 0 THEN 0
        ELSE IF w = 1 THEN 1
        ELSE IF ~ok(1) THEN 1
        ELSE IF w = 2 THEN 2
        ELSE IF ~ok(2) THEN 2
        ELSE IF w = 3 THEN 3
        ELSE IF ~ok(3) THEN 3
        ELSE 4

Utf8CodePoint(bytes, i) ==
    LET w == Utf8Width(bytes[i])
    IN  IF w = 1 THEN bytes[i]
        ELSE IF w = 2 THEN (bytes[i] - 192) * 64 + (bytes[i + 1] - 128)
        ELSE IF w = 3 THEN (bytes[i] - 224) * 4096 + (bytes[i + 1] - 128) * 64
                           + (bytes[i + 2] - 128)
        ELSE (bytes[i] - 240) * 262144 + (bytes[i + 1] - 128) * 4096
             + (bytes[i + 2] - 128) * 64 + (bytes[i + 3] - 128)

RECURSIVE Utf8From(_, _)
\* String::from_utf8 from position i: [ok, text]
Utf8From(bytes, i) ==
    IF i > Len(bytes) THEN [ok |-> TRUE, text |-> <<>>]
    ELSE LET w == Utf8Width(bytes[i])
         IN  IF w = 0 \/ Utf8Good(bytes, i) < w
             THEN [ok |-> FALSE, text |-> <<>>]
             ELSE LET rest == Utf8From(bytes, i + w)
                  IN  [ok |-> rest.ok,
                       text |-> <<Utf8CodePoint(bytes, i)>> \o rest.text]

\* String::from_utf8(bytes.to_vec())
from_utf8(bytes) == Utf8From(bytes, 1)

RECURSIVE Utf8LossyFrom(_, _)
\* String::from_utf8_lossy: every maximal ill-formed part becomes U+FFFD
\* (65533)
Utf8LossyFrom(bytes, i) ==
    IF i > Len(bytes) THEN <<>>
    ELSE LET w == Utf8Width(bytes[i])
             g == Utf8Good(bytes, i)
         IN  IF w # 0 /\ g = w
             THEN <<Utf8CodePoint(bytes, i)>> \o Utf8LossyFrom(bytes, i + w)
             ELSE <<65533>>
                  \o Utf8LossyFrom(bytes, i + (IF g = 0 THEN 1 ELSE g))

from_utf8_lossy(bytes) == Utf8LossyFrom(bytes, 1)

\* chunks_exact(2) with u16::from_be_bytes
UnitsBE(bytes) ==
    [k \in 1..(Len(bytes) \div 2) |-> bytes[2 * k - 1] * 256 + bytes[2 * k]]

\* chunks_exact(2) with u16::from_le_bytes
UnitsLE(bytes) ==
    [k \in 1..(Len(bytes) \div 2) |-> bytes[2 * k] * 256 + bytes[2 * k - 1]]

IsHighSurrogate(u) == u \in 55296..56319

IsLowSurrogate(u) == u \in 56320..57343

RECURSIVE Utf16From(_, _)
\* String::from_utf16 from position i: [ok, text]; an unpaired surrogate fails
Utf16From(units, i) ==
    IF i > Len(units) THEN [ok |-> TRUE, text |-> <<>>]
    ELSE IF IsHighSurrogate(units[i])
    THEN IF i + 1 <= Len(units) /\ IsLowSurrogate(units[i + 1])
         THEN LET rest == Utf16From(units, i + 2)
                  cp == 65536 + (units[i] - 55296) * 1024 + (units[i + 1] - 56320)
              IN  [ok |-> rest.ok, text |-> <<cp>> \o rest.text]
         ELSE [ok |-> FALSE, text |-> <<>>]
    ELSE IF IsLowSurrogate(units[i]) THEN [ok |-> FALSE, text |-> <<>>]
    ELSE LET rest == Utf16From(units, i + 1)
         IN  [ok |-> rest.ok, text |-> <<units[i]>> \o rest.text]

from_utf16(units) == Utf16From(units, 1)

\* bytes.iter().map(|&b| b as char).collect()
latin1(bytes) == bytes

(***************************************************************************)
(* lopdf's Document::decode_text, which decode_pdf_text_robust calls       *)
(* first.  A missing encoding and "StandardEncoding" go through the        *)
(* StandardEncoding table (bytes_to_string drops the codes the table does  *)
(* not define), "Identity-H" yields the text "?Identity-H Unimplemented?"  *)
(* and any other name is decoded as lossy UTF-8.                           *)
(***************************************************************************)
\* STANDARD_ENCODING for the codes the model's byte strings use: the
\* printable ASCII codes, and the codes the table leaves undefined (0)
StandardEncodingTable(b) ==
    IF b = 39 THEN 8217
    ELSE IF b = 96 THEN 8216
    ELSE IF b \in 32..126 THEN b
    ELSE 0

RECURSIVE bytes_to_string(_)
bytes_to_string(bytes) ==
    IF bytes = <<>> THEN <<>>
    ELSE LET c == StandardEncodingTable(Head(bytes))
         IN  (IF c = 0 THEN <<>> ELSE <<c>>) \o bytes_to_string(Tail(bytes))

\* "?Identity-H Unimplemented?"
IdentityHMessage == <<63>> \o IdentityH \o <<32>> \o Unimplemented \o <<63>>

decode_text(encoding, bytes) ==
    IF encoding = None \/ encoding = "StandardEncoding" THEN bytes_to_string(bytes)
    ELSE IF encoding = "Identity-H" THEN IdentityHMessage
    ELSE from_utf8_lossy(bytes)

(***************************************************************************)
(* decode_pdf_text_robust (pdf.rs)                                         *)
(***************************************************************************)
\* the check at the head of the function: the standard decoding failed
StandardDecodeFailed(decoded_text) ==
    \/ Contains(decoded_text, Unimplemented)
    \/ Contains(decoded_text, IdentityH)
    \/ IsBlank(decoded_text)

\* decode_pdf_text_robust giving up with the standard decoding's text
decode_keeps_failed_text(encoding, bytes) ==
    LET decoded_text == decode_text(encoding, bytes)
        utf8_text == from_utf8(bytes)
        utf16_text == from_utf16(UnitsBE(bytes))
        utf16_le_text == from_utf16(UnitsLE(bytes))
        latin1_text == latin1(bytes)
    IN  IF StandardDecodeFailed(decoded_text)
        THEN IF utf8_text.ok /\ HasReadableChar(utf8_text.text)
             THEN utf8_text.text
             ELSE IF /\ Len(bytes) >= 2 /\ Len(bytes) % 2 = 0
                     /\ utf16_text.ok /\ HasReadableChar(utf16_text.text)
             THEN utf16_text.text
             ELSE IF /\ Len(bytes) >= 2 /\ Len(bytes) % 2 = 0
                     /\ utf16_le_text.ok /\ HasReadableChar(utf16_le_text.text)
             THEN utf16_le_text.text
             ELSE IF HasReadableChar(latin1_text)
             THEN latin1_text
             ELSE decoded_text
        ELSE decoded_text

\* decode_pdf_text_robust trying UTF-16 little-endian before big-endian
decode_le_first(encoding, bytes) ==
    LET decoded_text == decode_text(encoding, bytes)
        utf8_text == from_utf8(bytes)
        utf16_text == from_utf16(UnitsBE(bytes))
        utf16_le_text == from_utf16(UnitsLE(bytes))
        latin1_text == latin1(bytes)
    IN  IF StandardDecodeFailed(decoded_text)
        THEN IF utf8_text.ok /\ HasReadableChar(utf8_text.text)
             THEN utf8_text.text
             ELSE IF /\ Len(bytes) >= 2 /\ Len(bytes) % 2 = 0
                     /\ utf16_le_text.ok /\ HasReadableChar(utf16_le_text.text)
             THEN utf16_le_text.text
             ELSE IF /\ Len(bytes) >= 2 /\ Len(bytes) % 2 = 0
                     /\ utf16_text.ok /\ HasReadableChar(utf16_text.text)
             THEN utf16_text.text
             ELSE IF HasReadableChar(latin1_text)
             THEN latin1_text
             ELSE <<>>
        ELSE decoded_text

decode_pdf_text_robust(encoding, bytes) ==
    LET decoded_text == decode_text(encoding, bytes)
        utf8_text == from_utf8(bytes)
        utf16_text == from_utf16(UnitsBE(bytes))
        utf16_le_text == from_utf16(UnitsLE(bytes))
        latin1_text == latin1(bytes)
    IN  IF StandardDecodeFailed(decoded_text)
        THEN IF utf8_text.ok /\ HasReadableChar(utf8_text.text)
             THEN utf8_text.text
             ELSE IF /\ Len(bytes) >= 2 /\ Len(bytes) % 2 = 0
                     /\ utf16_text.ok /\ HasReadableChar(utf16_text.text)
             THEN utf16_text.text
             ELSE IF /\ Len(bytes) >= 2 /\ Len(bytes) % 2 = 0
                     /\ utf16_le_text.ok /\ HasReadableChar(utf16_le_text.text)
             THEN utf16_le_text.text
             ELSE IF HasReadableChar(latin1_text)
             THEN latin1_text
             ELSE <<>>
        ELSE decoded_text

(***************************************************************************)
(* The document model (crate::core), as far as pdf.rs and text.rs build it *)
(***************************************************************************)
\* the size every Text element of the parsers is given
TextSize == 8

Text(t) == [kind |-> "Text", text |-> t, size |-> TextSize]

Paragraph(es) == [kind |-> "Paragraph", elements |-> es]

List(items, numbered) == [kind |-> "List", elements |-> items, numbered |-> numbered]

ListItem(e) == [element |-> e]

\* ImageData::new(bytes, "PDF Image <name>", "PDF Image", "png", "center", default)
Image(image_bytes, name) ==
    [kind |-> "Image", bytes |-> image_bytes, title |-> <<"PDF Image", name>>,
     alt |-> "PDF Image", image_type |-> "png", align |-> "center"]

\* elements.last(), None for the empty vector
LastKind(elements) == IF elements = <<>> THEN None ELSE Last(elements).kind

(***************************************************************************)
(* Operands of a content-stream operation (lopdf::Object)                  *)
(***************************************************************************)
String(bytes) == [type |-> "String", bytes |-> bytes]

Array(arr) == [type |-> "Array", arr |-> arr]

Integer(i) == [type |-> "Integer", i |-> i]

Name(n) == [type |-> "Name", name |-> n]

\* Object::Real: a number written with a decimal point, held here in tenths
\* (Real(-2505) is -250.5)
Real(tenths) == [type |-> "Real", tenths |-> tenths]

Operation(operator, operands) == [operator |-> operator, operands |-> operands]

\* the list-item marker: a string of the one byte 1
MarkerByte == 1

IsMarker(bytes) == Len(bytes) = 1 /\ bytes[1] = MarkerByte

\* a spacing adjustment below this value stands for a blank
SpacingThreshold == -100

Blank == 32

Newline == 10

(***************************************************************************)
(* collect_text (pdf.rs, inside parse_object): the Tj/TJ handler.  Returns *)
(* the pending buffer and the elements after the operands.                 *)
(***************************************************************************)
\* the marker arms clearing the buffer also where they open a List
collect_marker_clears(text, elements) ==
    LET k == LastKind(elements)
    IN  IF k = "List"
        THEN [text |-> <<>>,
              elements |-> Append(Front(elements),
                  List(Append(Last(elements).elements, ListItem(Text(text))),
                       Last(elements).numbered))]
        ELSE IF k = "Paragraph"
        THEN [text |-> <<>>,
              elements |-> Append(Append(Front(elements),
                  Paragraph(Append(Last(elements).elements, Text(text)))),
                  List(<<>>, FALSE))]
        ELSE [text |-> <<>>, elements |-> Append(elements, List(<<>>, FALSE))]

\* the String arm after the decoded text was pushed: bytes == [1]
collect_marker(text, elements) ==
    LET k == LastKind(elements)
    IN  IF k = "List"
        THEN [text |-> <<>>,
              elements |-> Append(Front(elements),
                  List(Append(Last(elements).elements, ListItem(Text(text))),
                       Last(elements).numbered))]
        ELSE IF k = "Paragraph"
        THEN [text |-> <<>>,
              elements |-> Append(Append(Front(elements),
                  Paragraph(Append(Last(elements).elements, Text(text)))),
                  List(<<>>, FALSE))]
        ELSE [text |-> text, elements |-> Append(elements, List(<<>>, FALSE))]

\* the String arm putting the marker's List in the place of the last element
collect_string_replaces(text, encoding, bytes, elements) ==
    LET decoded_text == decode_pdf_text_robust(encoding, bytes)
        pushed == text \o decoded_text
    IN  IF IsMarker(bytes)
        THEN IF elements = <<>> THEN collect_marker(pushed, elements)
             ELSE [text |-> <<>>,
                   elements |-> Append(Front(elements),
                                       List(<<ListItem(Text(pushed))>>, FALSE))]
        ELSE [text |-> pushed, elements |-> elements]

collect_string(text, encoding, bytes, elements) ==
    LET decoded_text == decode_pdf_text_robust(encoding, bytes)
        pushed == text \o decoded_text
    IN  IF IsMarker(bytes) THEN collect_marker(pushed, elements)
        ELSE [text |-> pushed, elements |-> elements]

RECURSIVE collect_text(_, _, _, _)
collect_text(text, encoding, operands, elements) ==
    IF operands = <<>> THEN [text |-> text, elements |-> elements]
    ELSE LET operand == Head(operands)
             done == IF operand.type = "String"
                     THEN collect_string(text, encoding, operand.bytes, elements)
                     ELSE IF operand.type = "Array"
                     THEN LET inner == collect_text(text, encoding, operand.arr, elements)
                          IN  [text |-> Append(inner.text, Blank),
                               elements |-> inner.elements]
                     ELSE IF operand.type = "Integer"
                     THEN [text |-> IF operand.i < SpacingThreshold
                                    THEN Append(text, Blank) ELSE text,
                           elements |-> elements]
                     ELSE [text |-> text, elements |-> elements]
         IN  collect_text(done.text, encoding, Tail(operands), done.elements)

\* the characters that collect_text pushes onto the buffer for the operands:
\* text.push_str(&decoded_text) and the two text.push(' ')
RECURSIVE pushed_text(_, _)
pushed_text(encoding, operands) ==
    IF operands = <<>> THEN <<>>
    ELSE LET operand == Head(operands)
             pushed == IF operand.type = "String"
                       THEN decode_pdf_text_robust(encoding, operand.bytes)
                       ELSE IF operand.type = "Array"
                       THEN Append(pushed_text(encoding, operand.arr), Blank)
                       ELSE IF operand.type = "Integer" /\ operand.i < SpacingThreshold
                       THEN <<Blank>>
                       ELSE <<>>
         IN  pushed \o pushed_text(encoding, Tail(operands))

(***************************************************************************)
(* The other handlers of parse_object's operator loop                      *)
(***************************************************************************)
\* a "Tm" that opens a new Paragraph whatever the last element is
TmFlushOpensParagraph(text, elements) == Append(elements, Paragraph(<<Text(text)>>))

\* "Tm": the elements after the pending buffer was flushed
TmFlush(text, elements) ==
    LET k == LastKind(elements)
    IN  IF k = None THEN <<Paragraph(<<Text(text)>>)>>
        ELSE IF k = "Paragraph"
        THEN Append(Front(elements),
                    Paragraph(Append(Last(elements).elements, Text(text))))
        ELSE Append(elements, Text(text))

\* "Tf": operands.first().ok_or(ParserError::Common)?.as_name()?
TfFontName(operands) ==
    IF operands = <<>> THEN [ok |-> FALSE, name |-> None]
    ELSE IF Head(operands).type # "Name" THEN [ok |-> FALSE, name |-> None]
    ELSE [ok |-> TRUE, name |-> Head(operands).name]

\* encodings.get(current_font).cloned()
EncodingOf(encodings, font) ==
    IF font \in DOMAIN encodings THEN encodings[font] ELSE None

\* "ET" pushing a newline whatever the buffer ends with
EndTextAlwaysPushes(text) == Append(text, Newline)

\* "ET"
EndText(text) ==
    IF text # <<>> /\ Last(text) = Newline THEN text ELSE Append(text, Newline)

\* the flush forgetting the earlier items of a trailing List
EndOfPageFlushDropsItems(text, elements) ==
    IF text = <<>> THEN elements
    ELSE LET k == LastKind(elements)
         IN  IF k = None THEN <<Paragraph(<<Text(text)>>)>>
             ELSE IF k = "Paragraph"
             THEN Append(Front(elements),
                         Paragraph(Append(Last(elements).elements, Text(text))))
             ELSE IF k = "List"
             THEN Append(Front(elements),
                         List(<<ListItem(Text(text))>>, Last(elements).numbered))
             ELSE elements

\* the flush after the operator loop
EndOfPageFlush(text, elements) ==
    IF text = <<>> THEN elements
    ELSE LET k == LastKind(elements)
         IN  IF k = None THEN <<Paragraph(<<Text(text)>>)>>
             ELSE IF k = "Paragraph"
             THEN Append(Front(elements),
                         Paragraph(Append(Last(elements).elements, Text(text))))
             ELSE IF k = "List"
             THEN Append(Front(elements),
                         List(Append(Last(elements).elements, ListItem(Text(text))),
                              Last(elements).numbered))
             ELSE elements

(***************************************************************************)
(* The resource scan of Transformer::parse (pdf.rs).  An XObject entry of  *)
(* the page's resource dictionary is                                       *)
(*   [name, is_reference, resolves, variant, subtype, content]             *)
(* where variant is the lopdf::Object variant get_object returns           *)
(* ("Stream", "Dictionary" or another one), subtype the /Subtype entry of  *)
(* the object's dictionary (None when absent, "NotAName" when it is not a  *)
(* name) and content the raw stream content.  lopdf's Object::as_dict      *)
(* succeeds on the Dictionary variant only, Object::as_stream on the       *)
(* Stream variant only.                                                    *)
(***************************************************************************)
XObject(name, variant, subtype, content) ==
    [name |-> name, is_reference |-> TRUE, resolves |-> TRUE,
     variant |-> variant, subtype |-> subtype, content |-> content]

as_dict_ok(xobj) == xobj.variant = "Dictionary"

as_stream_ok(xobj) == xobj.variant = "Stream"

\* one iteration of `for (name, xobj_ref) in xobj_dict.iter()`:
\* [ok, images], ok = FALSE when `subtype.as_name_str()?` returns the error
scan_xobject(xobj) ==
    IF /\ xobj.is_reference
       /\ xobj.resolves
       /\ as_dict_ok(xobj)
       /\ xobj.subtype # None
    THEN IF xobj.subtype = "NotAName" THEN [ok |-> FALSE, images |-> <<>>]
         ELSE IF xobj.subtype = "Image" /\ as_stream_ok(xobj)
         THEN [ok |-> TRUE, images |-> <<Image(xobj.content, xobj.name)>>]
         ELSE [ok |-> TRUE, images |-> <<>>]
    ELSE [ok |-> TRUE, images |-> <<>>]

RECURSIVE scan_xobjects(_)
scan_xobjects(xobjects) ==
    IF xobjects = <<>> THEN [ok |-> TRUE, images |-> <<>>]
    ELSE LET first == scan_xobject(Head(xobjects))
             rest == scan_xobjects(Tail(xobjects))
         IN  IF ~first.ok THEN [ok |-> FALSE, images |-> <<>>]
             ELSE [ok |-> rest.ok, images |-> first.images \o rest.images]

\* the scan of one page: get_page_resources gives the page's own resource
\* dictionary only when it is stored inline in the page object
scan_resources(p) ==
    IF p.resources_inline THEN scan_xobjects(p.xobjects)
    ELSE [ok |-> TRUE, images |-> <<>>]

(***************************************************************************)
(* str::lines of text.rs: the lines end at "\n", a "\r" before it is       *)
(* dropped too, and a final empty line is not a line                       *)
(***************************************************************************)
CarriageReturn == 13

RECURSIVE SplitLines(_, _)
\* the lines of s after the pending line cur
SplitLines(s, cur) ==
    IF s = <<>> THEN (IF cur = <<>> THEN <<>> ELSE <<cur>>)
    ELSE IF Head(s) = Newline
    THEN <<IF cur # <<>> /\ Last(cur) = CarriageReturn THEN Front(cur) ELSE cur>>
         \o SplitLines(Tail(s), <<>>)
    ELSE SplitLines(Tail(s), Append(cur, Head(s)))

lines(s) == SplitLines(s, <<>>)

RECURSIVE LineElements(_)
\* the while loop of text.rs parse: each line, then a "\n"
LineElements(lines_vec) ==
    IF lines_vec = <<>> THEN <<>>
    ELSE <<Text(Head(lines_vec)), Text(<<Newline>>)>> \o LineElements(Tail(lines_vec))

\* a text parse that replaces what is not UTF-8 instead of failing
text_parse_lossy(bytes) ==
    [ok |-> TRUE,
     document |-> <<Paragraph(LineElements(lines(from_utf8_lossy(bytes))))>>]

\* Transformer::parse of text.rs: [ok, document]
text_parse(bytes) ==
    LET document == from_utf8(bytes)
    IN  IF ~document.ok THEN [ok |-> FALSE, document |-> <<>>]
        ELSE [ok |-> TRUE,
              document |-> <<Paragraph(LineElements(lines(document.text)))>>]

(***************************************************************************)
(* State.  The input of a PDF parse is the loaded document, as far as the  *)
(* parser has read it: pages in page-tree order, each                      *)
(*   [resources_inline, xobjects, fonts, contents, readable, ops, closed]  *)
(* with contents the number of content objects of the page, readable       *)
(* whether get_object, get_page_content and Content::decode succeed on     *)
(* them, ops the operations of the page's decoded content and closed       *)
(* whether ops is the whole content.  A page or an operation the parser    *)
(* has not reached yet is drawn when it reaches it and recorded.  The      *)
(* limits L of a specification bound what is drawn: the number of pages,   *)
(* the number of operations of the document, the operations that may stand *)
(* at each position, and the pages.                                        *)
(***************************************************************************)
VARIABLES
    input,              \* the buffer handed to parse
    pc,                 \* start, pages, objects, ops, done, error
    page,               \* the pages taken from get_pages() so far
    obj,                \* the content objects of the page taken so far
    ip,                 \* operations interpreted by this parse_object call
    elements,           \* parse: elements
    text,               \* parse_object: the pending buffer
    encodings,          \* parse_object: font name -> encoding
    current_encoding,   \* parse_object: the register
    result,             \* what parse returned, None before
    run,                \* the calls of parse on the buffer so far
    previous,           \* what the call before this one returned
    image_data,         \* the ImageData built from the image file
    base64,             \* image_data.to_base64()
    decoded,            \* ImageData::from_base64(&base64, ..)
    job,                \* the Document handed to generate, and its backend
    gpc,                \* generate: lower, compile, warnings, pdf, returned, aborted
    logged,             \* generate: the warnings logged so far
    generated,          \* what generate returned, None before
    tdocument,          \* text generate: the bands of the Document
    tpc,                \* text generate: bands, returned, aborted
    tnext,              \* text generate: the element the band loop takes next
    tstate,             \* text generate: markdown, list stacks, images, image_num
    tgenerated,         \* what text generate returned, None before
    args,               \* main: the parsed command line
    env,                \* main: what the file system and the library answer
    mpc,                \* main: start, extensions, types, read, parse, generate,
                        \*       write, exited, aborted
    exit,               \* what main returned, None before
    output_file,        \* the file at OUTPUT_FILE: untouched, truncated, written
    base64_file,        \* the file at --output, when it is another path
    saved               \* whether the image saver wrote an image file

parseVars == <<input, pc, page, obj, ip, elements, text, encodings,
               current_encoding, result>>

callVars == <<run, previous>>

imageVars == <<image_data, base64, decoded>>

generateVars == <<job, gpc, logged, generated>>

textVars == <<tdocument, tpc, tnext, tstate, tgenerated>>

cliVars == <<args, env, mpc, exit, output_file, base64_file, saved>>

\* what one call of parse leaves alone
notParseVars == <<callVars, imageVars, generateVars, textVars, cliVars>>

\* what one run of the command line tool leaves alone
notCliVars == <<parseVars, callVars, imageVars, generateVars, textVars>>

vars == <<parseVars, callVars, imageVars, generateVars, textVars, cliVars>>

Ok(document) == [kind |-> "Ok", document |-> document]

Err == [kind |-> "Err"]

NoFonts == <<>>

PdfInput(loadable) ==
    [format |-> "pdf", loadable |-> loadable, pages |-> <<>>, complete |-> FALSE]

TextInput(bytes) == [format |-> "text", bytes |-> bytes]

PageHeader(resources_inline, xobjects, fonts, contents, readable) ==
    [resources_inline |-> resources_inline, xobjects |-> xobjects,
     fonts |-> fonts, contents |-> contents, readable |-> readable]

NewPage(h) ==
    [resources_inline |-> h.resources_inline, xobjects |-> h.xobjects,
     fonts |-> h.fonts, contents |-> h.contents, readable |-> h.readable,
     ops |-> <<>>, closed |-> FALSE]

RECURSIVE TotalOps(_)
TotalOps(pages) ==
    IF pages = <<>> THEN 0 ELSE Len(Head(pages).ops) + TotalOps(Tail(pages))

\* the page the page loop takes next: the recorded one, or a new one
NextPages(L) ==
    IF page < Len(input.pages) THEN {input.pages[page + 1]}
    ELSE IF ~input.complete /\ Len(input.pages) < L.pages
    THEN {NewPage(h) : h \in L.page_options}
    ELSE {}

TakePage(p) ==
    IF page < Len(input.pages) THEN input
    ELSE [input EXCEPT !.pages = Append(@, p)]

\* the operation the operator loop takes next
NextOperations(L) ==
    LET p == input.pages[page]
    IN  IF ip < Len(p.ops) THEN {p.ops[ip + 1]}
        ELSE IF ~p.closed /\ TotalOps(input.pages) < L.ops
        THEN L.operations[TotalOps(input.pages) + 1]
        ELSE {}

TakeOperation(operation) ==
    IF ip < Len(input.pages[page].ops) THEN input
    ELSE [input EXCEPT !.pages[page].ops = Append(@, operation)]

(***************************************************************************)
(* Transformer::parse of pdf.rs                                            *)
(***************************************************************************)
\* PdfDocument::load_mem(document)?
LoadMem ==
    /\ pc = "start"
    /\ input.format = "pdf"
    /\ IF input.loadable
       THEN pc' = "pages" /\ result' = result
       ELSE pc' = "error" /\ result' = Err
    /\ UNCHANGED <<input, page, obj, ip, elements, text, encodings, current_encoding>>
    /\ UNCHANGED notParseVars

\* the head of the page loop and the resource scan of the page
NextPage(L) ==
    /\ pc = "pages"
    /\ \E p \in NextPages(L) :
          LET scan == scan_resources(p)
          IN  /\ input' = TakePage(p)
              /\ page' = page + 1
              /\ obj' = 0
              /\ IF scan.ok
                 THEN /\ elements' = elements \o scan.images
                      /\ pc' = "objects"
                      /\ result' = result
                 ELSE /\ elements' = elements
                      /\ pc' = "error"
                      /\ result' = Err
    /\ UNCHANGED <<ip, text, encodings, current_encoding>>
    /\ UNCHANGED notParseVars

\* the page loop ends: Ok(Document::new(elements))
Return ==
    /\ pc = "pages"
    /\ page = Len(input.pages)
    /\ input' = [input EXCEPT !.complete = TRUE]
    /\ pc' = "done"
    /\ result' = Ok(elements)
    /\ UNCHANGED <<page, obj, ip, elements, text, encodings, current_encoding>>
    /\ UNCHANGED notParseVars

\* the content-object loop entering parse_object with the register of the
\* page before
NextObjectKeepsRegister ==
    /\ pc = "objects"
    /\ obj < input.pages[page].contents
    /\ obj' = obj + 1
    /\ IF input.pages[page].readable
       THEN /\ text' = <<>>
            /\ encodings' = input.pages[page].fonts
            /\ current_encoding' = current_encoding
            /\ ip' = 0
            /\ pc' = "ops"
            /\ result' = result
       ELSE /\ pc' = "error"
            /\ result' = Err
            /\ UNCHANGED <<text, encodings, current_encoding, ip>>
    /\ UNCHANGED <<input, page, elements>>
    /\ UNCHANGED notParseVars

\* the content-object loop takes an object: get_object(object_id)?, then
\* parse_object up to its operator loop
NextObject ==
    /\ pc = "objects"
    /\ obj < input.pages[page].contents
    /\ obj' = obj + 1
    /\ IF input.pages[page].readable
       THEN /\ text' = <<>>
            /\ encodings' = input.pages[page].fonts
            /\ current_encoding' = None
            /\ ip' = 0
            /\ pc' = "ops"
            /\ result' = result
       ELSE /\ pc' = "error"
            /\ result' = Err
            /\ UNCHANGED <<text, encodings, current_encoding, ip>>
    /\ UNCHANGED <<input, page, elements>>
    /\ UNCHANGED notParseVars

\* the content-object loop ends
EndObjects ==
    /\ pc = "objects"
    /\ obj = input.pages[page].contents
    /\ pc' = "pages"
    /\ UNCHANGED <<input, page, obj, ip, elements, text, encodings,
                   current_encoding, result>>
    /\ UNCHANGED notParseVars

OpTm(L) ==
    /\ pc = "ops"
    /\ \E operation \in NextOperations(L) :
          /\ operation.operator = "Tm"
          /\ input' = TakeOperation(operation)
    /\ ip' = ip + 1
    /\ elements' = TmFlush(text, elements)
    /\ text' = <<>>
    /\ UNCHANGED <<pc, page, obj, encodings, current_encoding, result>>
    /\ UNCHANGED notParseVars

\* "Tf" going on to the next operator when its operand is missing or is not
\* a name
OpTfSkipsBadOperand(L) ==
    /\ pc = "ops"
    /\ \E operation \in NextOperations(L) :
          /\ operation.operator = "Tf"
          /\ input' = TakeOperation(operation)
          /\ LET current_font == TfFontName(operation.operands)
             IN  current_encoding'
                    = IF current_font.ok
                      THEN EncodingOf(encodings, current_font.name)
                      ELSE current_encoding
    /\ ip' = ip + 1
    /\ UNCHANGED <<pc, result, page, obj, elements, text, encodings>>
    /\ UNCHANGED notParseVars

OpTf(L) ==
    /\ pc = "ops"
    /\ \E operation \in NextOperations(L) :
          /\ operation.operator = "Tf"
          /\ input' = TakeOperation(operation)
          /\ LET current_font == TfFontName(operation.operands)
             IN  IF current_font.ok
                 THEN /\ current_encoding' = EncodingOf(encodings, current_font.name)
                      /\ pc' = pc
                      /\ result' = result
                 ELSE /\ current_encoding' = current_encoding
                      /\ pc' = "error"
                      /\ result' = Err
    /\ ip' = ip + 1
    /\ UNCHANGED <<page, obj, elements, text, encodings>>
    /\ UNCHANGED notParseVars

OpShow(L) ==
    /\ pc = "ops"
    /\ \E operation \in NextOperations(L) :
          /\ operation.operator \in {"Tj", "TJ"}
          /\ input' = TakeOperation(operation)
          /\ LET shown == collect_text(text, current_encoding,
                                       operation.operands, elements)
             IN  /\ text' = shown.text
                 /\ elements' = shown.elements
    /\ ip' = ip + 1
    /\ UNCHANGED <<pc, page, obj, encodings, current_encoding, result>>
    /\ UNCHANGED notParseVars

OpET(L) ==
    /\ pc = "ops"
    /\ \E operation \in NextOperations(L) :
          /\ operation.operator = "ET"
          /\ input' = TakeOperation(operation)
    /\ ip' = ip + 1
    /\ text' = EndText(text)
    /\ UNCHANGED <<pc, page, obj, elements, encodings, current_encoding, result>>
    /\ UNCHANGED notParseVars

OpOther(L) ==
    /\ pc = "ops"
    /\ \E operation \in NextOperations(L) :
          /\ operation.operator \notin {"Tm", "Tf", "Tj", "TJ", "ET"}
          /\ input' = TakeOperation(operation)
    /\ ip' = ip + 1
    /\ UNCHANGED <<pc, page, obj, elements, text, encodings, current_encoding,
                   result>>
    /\ UNCHANGED notParseVars

\* the operator loop ends: the flush, and parse_object returns
EndOfPage ==
    /\ pc = "ops"
    /\ ip = Len(input.pages[page].ops)
    /\ input' = [input EXCEPT !.pages[page].closed = TRUE]
    /\ elements' = EndOfPageFlush(text, elements)
    /\ pc' = "objects"
    /\ UNCHANGED <<page, obj, ip, text, encodings, current_encoding, result>>
    /\ UNCHANGED notParseVars

\* Transformer::parse of text.rs
TextParse ==
    /\ pc = "start"
    /\ input.format = "text"
    /\ LET parsed == text_parse(input.bytes)
       IN  IF parsed.ok
           THEN pc' = "done" /\ result' = Ok(parsed.document)
           ELSE pc' = "error" /\ result' = Err
    /\ UNCHANGED <<input, page, obj, ip, elements, text, encodings, current_encoding>>
    /\ UNCHANGED notParseVars

(***************************************************************************)
(* A second call of parse on the buffer of the call that returned.  The    *)
(* buffer is what the first call read of it; parse takes it by shared      *)
(* reference, and every local of parse is constructed anew.                *)
(***************************************************************************)
MaxRuns == 2

RECURSIVE ClosePages(_)
ClosePages(pages) ==
    IF pages = <<>> THEN <<>>
    ELSE <<[Head(pages) EXCEPT !.closed = TRUE]>> \o ClosePages(Tail(pages))

\* the buffer as the call read it
Buffer(in) ==
    IF in.format = "pdf"
    THEN [in EXCEPT !.pages = ClosePages(@), !.complete = TRUE]
    ELSE in

\* a second call that starts from the elements of the first
ParseAgainKeepsElements ==
    /\ pc \in {"done", "error"}
    /\ run < MaxRuns
    /\ run' = run + 1
    /\ previous' = result
    /\ input' = Buffer(input)
    /\ pc' = "start"
    /\ page' = 0
    /\ obj' = 0
    /\ ip' = 0
    /\ text' = <<>>
    /\ encodings' = NoFonts
    /\ current_encoding' = None
    /\ result' = None
    /\ UNCHANGED <<elements, imageVars, generateVars, textVars, cliVars>>

ParseAgain ==
    /\ pc \in {"done", "error"}
    /\ run < MaxRuns
    /\ run' = run + 1
    /\ previous' = result
    /\ input' = Buffer(input)
    /\ pc' = "start"
    /\ page' = 0
    /\ obj' = 0
    /\ ip' = 0
    /\ elements' = <<>>
    /\ text' = <<>>
    /\ encodings' = NoFonts
    /\ current_encoding' = None
    /\ result' = None
    /\ UNCHANGED <<imageVars, generateVars, textVars, cliVars>>

(***************************************************************************)
(* The image codec of crate::core, as the examples and the command line    *)
(* use it: ImageData::new, to_base64, from_base64.  Base64 is the standard *)
(* alphabet with padding; a string is the sequence of its code points.     *)
(***************************************************************************)
ImageData(bytes, title, alt, image_type, align, size) ==
    [bytes |-> bytes, title |-> title, alt |-> alt, image_type |-> image_type,
     align |-> align, size |-> size]

ImageDimension(width, height) == [width |-> width, height |-> height]

\* "="
Pad == 61

\* the character of a six-bit value in the URL-safe alphabet: "-", "_"
Base64CharUrl(v) ==
    IF v < 26 THEN 65 + v
    ELSE IF v < 52 THEN 97 + (v - 26)
    ELSE IF v < 62 THEN 48 + (v - 52)
    ELSE IF v = 62 THEN 45
    ELSE 95

\* the character of a six-bit value: A-Z, a-z, 0-9, "+", "/"
Base64Char(v) ==
    IF v < 26 THEN 65 + v
    ELSE IF v < 52 THEN 97 + (v - 26)
    ELSE IF v < 62 THEN 48 + (v - 52)
    ELSE IF v = 62 THEN 43
    ELSE 47

\* the six-bit value of a character, -1 when it is outside the alphabet
Base64Value(c) ==
    IF c >= 65 /\ c <= 90 THEN c - 65
    ELSE IF c >= 97 /\ c <= 122 THEN c - 97 + 26
    ELSE IF c >= 48 /\ c <= 57 THEN c - 48 + 52
    ELSE IF c = 43 THEN 62
    ELSE IF c = 47 THEN 63
    ELSE -1

RECURSIVE base64_encode(_)
base64_encode(bytes) ==
    IF bytes = <<>> THEN <<>>
    ELSE IF Len(bytes) = 1
    THEN <<Base64Char(bytes[1] \div 4), Base64Char((bytes[1] % 4) * 16), Pad, Pad>>
    ELSE IF Len(bytes) = 2
    THEN <<Base64Char(bytes[1] \div 4),
           Base64Char((bytes[1] % 4) * 16 + (bytes[2] \div 16)),
           Base64Char((bytes[2] % 16) * 4), Pad>>
    ELSE <<Base64Char(bytes[1] \div 4),
           Base64Char((bytes[1] % 4) * 16 + (bytes[2] \div 16)),
           Base64Char((bytes[2] % 16) * 4 + (bytes[3] \div 64)),
           Base64Char(bytes[3] % 64)>>
         \o base64_encode(SubSeq(bytes, 4, Len(bytes)))

RECURSIVE base64_decode(_)
\* [ok, bytes]: the length is a multiple of four, padding stands only at the
\* end of the last group, and the bits the padding drops are zero
base64_decode(str) ==
    IF str = <<>> THEN [ok |-> TRUE, bytes |-> <<>>]
    ELSE IF Len(str) < 4 THEN [ok |-> FALSE, bytes |-> <<>>]
    ELSE LET a == Base64Value(str[1])
             b == Base64Value(str[2])
             c == Base64Value(str[3])
             d == Base64Value(str[4])
             last == Len(str) = 4
         IN  IF a < 0 \/ b < 0 THEN [ok |-> FALSE, bytes |-> <<>>]
             ELSE IF last /\ str[3] = Pad /\ str[4] = Pad
             THEN IF b % 16 = 0
                  THEN [ok |-> TRUE, bytes |-> <<a * 4 + (b \div 16)>>]
                  ELSE [ok |-> FALSE, bytes |-> <<>>]
             ELSE IF c < 0 THEN [ok |-> FALSE, bytes |-> <<>>]
             ELSE IF last /\ str[4] = Pad
             THEN IF c % 4 = 0
                  THEN [ok |-> TRUE,
                        bytes |-> <<a * 4 + (b \div 16), (b % 16) * 16 + (c \div 4)>>]
                  ELSE [ok |-> FALSE, bytes |-> <<>>]
             ELSE IF d < 0 THEN [ok |-> FALSE, bytes |-> <<>>]
             ELSE LET rest == base64_decode(SubSeq(str, 5, Len(str)))
                  IN  IF rest.ok
                      THEN [ok |-> TRUE,
                            bytes |-> <<a * 4 + (b \div 16), (b % 16) * 16 + (c \div 4),
                                        (c % 4) * 64 + d>> \o rest.bytes]
                      ELSE [ok |-> FALSE, bytes |-> <<>>]

to_base64(image) == base64_encode(image.bytes)

\* [ok, image]
from_base64(str, title, alt, image_type, align, size) ==
    LET bytes == base64_decode(str)
    IN  IF bytes.ok
        THEN [ok |-> TRUE,
              image |-> ImageData(bytes.bytes, title, alt, image_type, align, size)]
        ELSE [ok |-> FALSE, image |-> None]

\* an optional value: Nothing, or Some(x)
Nothing == <<>>

Some(x) == <<x>>

\* let image_data = ImageData::new(Bytes::from(image_bytes), ..)
NewImageData(L) ==
    /\ image_data = Nothing
    /\ \E image_bytes \in L.images, image_type \in L.types, size \in L.sizes :
          image_data' = Some(ImageData(image_bytes, "Image", "Converted image",
                                       image_type, "center", size))
    /\ UNCHANGED <<base64, decoded, parseVars, callVars, generateVars, textVars, cliVars>>

\* let base64_string = image_data.to_base64()
ToBase64 ==
    /\ image_data # Nothing
    /\ base64 = Nothing
    /\ base64' = Some(to_base64(image_data[1]))
    /\ UNCHANGED <<image_data, decoded, parseVars, callVars, generateVars, textVars, cliVars>>

\* let restored_image = ImageData::from_base64(&base64_string, ..)?
FromBase64(L) ==
    /\ base64 # Nothing
    /\ decoded = Nothing
    /\ \E title \in L.titles, image_type \in L.types, size \in L.sizes :
          decoded' = Some(from_base64(base64[1], title, "Image restored from Base64",
                                      image_type, "center", size))
    /\ UNCHANGED <<image_data, base64, parseVars, callVars, generateVars, textVars, cliVars>>

(***************************************************************************)
(* Transformer::generate of pdf.rs.  The lowering of crate::typst and the  *)
(* typesetting backend are outside: a job names what each of them answers  *)
(* for the Document.                                                       *)
(***************************************************************************)
Job(document, lowers, compiles, warnings) ==
    [document |-> document, lowers |-> lowers, compiles |-> compiles,
     warnings |-> warnings]

GenerateOk(document) == [kind |-> "Ok", bytes |-> <<"pdf", document>>]

\* let (text, img_map) = crate::typst::generate_document(document)?
GenerateDocument ==
    /\ gpc = "lower"
    /\ IF job.lowers
       THEN gpc' = "compile" /\ generated' = generated
       ELSE gpc' = "returned" /\ generated' = Err
    /\ UNCHANGED <<job, logged, parseVars, callVars, imageVars, textVars, cliVars>>

\* let document = typst::compile(&world, &mut tracer).unwrap(): the unwrap
\* of a failure is a panic
Compile ==
    /\ gpc = "compile"
    /\ gpc' = IF job.compiles THEN "warnings" ELSE "aborted"
    /\ UNCHANGED <<job, logged, generated, parseVars, callVars, imageVars, textVars, cliVars>>

\* for warn in warnings { warn!(..) }
LogWarning ==
    /\ gpc = "warnings"
    /\ logged < job.warnings
    /\ logged' = logged + 1
    /\ UNCHANGED <<job, gpc, generated, parseVars, callVars, imageVars, textVars, cliVars>>

\* a return that takes a warning for a failure
ReturnPdfFailsOnWarnings ==
    /\ gpc = "warnings"
    /\ logged = job.warnings
    /\ gpc' = "returned"
    /\ generated' = IF job.warnings > 0 THEN Err ELSE GenerateOk(job.document)
    /\ UNCHANGED <<job, logged, parseVars, callVars, imageVars, textVars, cliVars>>

\* typst_pdf::pdf(&document, ..); Ok(bytes)
ReturnPdf ==
    /\ gpc = "warnings"
    /\ logged = job.warnings
    /\ gpc' = "returned"
    /\ generated' = GenerateOk(job.document)
    /\ UNCHANGED <<job, logged, parseVars, callVars, imageVars, textVars, cliVars>>

(***************************************************************************)
(* Transformer::generate of text.rs.  A string is the sequence of its code *)
(* points; str::len is the length of its UTF-8 form.  The state that       *)
(* generate_element threads through its calls is one record                *)
(*   [markdown, list_counters, list_types, images, image_num, panicked]    *)
(* with panicked set by an index out of bounds or an arithmetic overflow.  *)
(***************************************************************************)
Header(level, t) == [kind |-> "Header", level |-> level, text |-> t]

Hyperlink(title, url, alt) ==
    [kind |-> "Hyperlink", title |-> title, url |-> url, alt |-> alt]

Table(headers, rows) == [kind |-> "Table", headers |-> headers, rows |-> rows]

TableRow(cells) == [cells |-> cells]

\* Element::Image(ImageData) with the alt text and title that generate prints
Picture(image_bytes, alt, title) ==
    [kind |-> "Image", bytes |-> image_bytes, title |-> title, alt |-> alt,
     image_type |-> "png", align |-> "center"]

\* the UTF-8 length of a code point
Utf8Len(c) == IF c < 128 THEN 1 ELSE IF c < 2048 THEN 2 ELSE IF c < 65536 THEN 3 ELSE 4

RECURSIVE len(_)
\* str::len: the number of bytes
len(str) == IF str = <<>> THEN 0 ELSE Utf8Len(Head(str)) + len(Tail(str))

\* str::repeat of a one-character string
repeat(c, n) == [k \in 1..n |-> c]

RECURSIVE repeat_str(_, _)
repeat_str(str, n) == IF n <= 0 THEN <<>> ELSE str \o repeat_str(str, n - 1)

RECURSIVE Decimal(_)
\* format!("{}", n) of a number that is not negative
Decimal(n) == IF n < 10 THEN <<48 + n>> ELSE Decimal(n \div 10) \o <<48 + (n % 10)>>

Dash == 45

Bar == 124

\* format!("image{}.png", image_num)
ImagePath(image_num) ==
    <<105, 109, 97, 103, 101>> \o Decimal(image_num) \o <<46, 112, 110, 103>>

\* format!("![{}]({} \"{}\")", alt, image_path, title)
ImageReference(alt, image_path, title) ==
    <<33, 91>> \o alt \o <<93, 40>> \o image_path \o <<32, 34>> \o title \o <<34, 41>>

\* format!("[{}]({} \"{}\")", title, url, alt)
LinkReference(title, url, alt) ==
    <<91>> \o title \o <<93, 40>> \o url \o <<32, 34>> \o alt \o <<34, 41>>

NoImages == <<>>

GenerateState ==
    [markdown |-> <<>>, list_counters |-> <<>>, list_types |-> <<>>,
     images |-> NoImages, image_num |-> 0, panicked |-> FALSE]

push_str(st, str) == [st EXCEPT !.markdown = @ \o str]

Panic(st) == [st EXCEPT !.panicked = TRUE]

\* HashMap::insert
Insert(map, key, value) ==
    [k \in (DOMAIN map) \cup {key} |-> IF k = key THEN value ELSE map[k]]

RECURSIVE header_lengths(_)
\* lines 160-164: one entry for each header that is a Text
header_lengths(headers) ==
    IF headers = <<>> THEN <<>>
    ELSE (IF Head(headers).element.kind = "Text"
          THEN <<len(Head(headers).element.text)>> ELSE <<>>)
         \o header_lengths(Tail(headers))

RECURSIVE cell_lengths(_, _, _)
\* lines 166-173 for the cells from cell_index (counted from 1) on
cell_lengths(max_lengths, cells, cell_index) ==
    IF cell_index > Len(cells) THEN max_lengths
    ELSE LET cell == cells[cell_index].element
             next == IF cell.kind = "Text" /\ cell_index <= Len(max_lengths)
                     THEN [max_lengths EXCEPT ![cell_index] =
                              IF len(cell.text) > @ THEN len(cell.text) ELSE @]
                     ELSE max_lengths
         IN  cell_lengths(next, cells, cell_index + 1)

RECURSIVE row_lengths(_, _)
\* lines 165-174
row_lengths(max_lengths, rows) ==
    IF rows = <<>> THEN max_lengths
    ELSE row_lengths(cell_lengths(max_lengths, Head(rows).cells, 1), Tail(rows))

RECURSIVE render_cells(_, _, _, _)
\* lines 176-184 and 194-202: the Text items from index (counted from 1) on
render_cells(st, max_lengths, items, index) ==
    IF st.panicked \/ index > Len(items) THEN st
    ELSE LET item == items[index].element
         IN  IF item.kind # "Text"
             THEN render_cells(st, max_lengths, items, index + 1)
             ELSE IF index > Len(max_lengths) THEN Panic(st)
             ELSE IF max_lengths[index] < len(item.text) THEN Panic(st)
             ELSE render_cells(
                     push_str(st, <<Bar, Blank>> \o item.text
                                  \o repeat(Blank, max_lengths[index] - len(item.text))
                                  \o <<Blank>>),
                     max_lengths, items, index + 1)

RECURSIVE render_separator(_, _)
\* lines 187-190
render_separator(st, max_lengths) ==
    IF max_lengths = <<>> THEN st
    ELSE render_separator(push_str(st, <<Bar>> \o repeat(Dash, Head(max_lengths) + 2)),
                          Tail(max_lengths))

RECURSIVE render_rows(_, _, _)
\* lines 193-204
render_rows(st, max_lengths, rows) ==
    IF st.panicked \/ rows = <<>> THEN st
    ELSE LET row == render_cells(st, max_lengths, Head(rows).cells, 1)
         IN  IF row.panicked THEN row
             ELSE render_rows(push_str(row, <<Bar, Newline>>), max_lengths, Tail(rows))

\* the Table arm
generate_table(st, headers, rows) ==
    LET max_lengths == row_lengths(header_lengths(headers), rows)
        head == render_cells(st, max_lengths, headers, 1)
    IN  IF head.panicked THEN head
        ELSE LET separator == render_separator(push_str(head, <<Bar, Newline>>),
                                               max_lengths)
                 body == render_rows(push_str(separator, <<Bar, Newline>>),
                                     max_lengths, rows)
             IN  IF body.panicked THEN body ELSE push_str(body, <<Newline>>)

RECURSIVE generate_element(_, _, _)
RECURSIVE generate_children(_, _, _)
RECURSIVE generate_list_items(_, _, _)

\* generate_list_item counting every item of a numbered List, the ones that
\* are not a Text included
generate_list_item_counts_all(st, item, list_depth) ==
    LET is_text == item.element.kind = "Text"
        numbered == Last(st.list_types)
        counted == IF numbered
                   THEN [st EXCEPT !.list_counters[Len(st.list_counters)] = @ + 1]
                   ELSE st
        prefix == IF numbered
                  THEN Decimal(Last(counted.list_counters)) \o <<46, Blank>>
                  ELSE <<Dash, Blank>>
        indented == push_str(counted, repeat_str(<<Blank, Blank>>, list_depth - 1))
        prefixed == IF is_text THEN push_str(indented, prefix) ELSE indented
        done == generate_element(prefixed, item.element, list_depth)
    IN  IF done.panicked THEN done
        ELSE IF is_text THEN push_str(done, <<Newline>>)
        ELSE done

\* lines 51-87
generate_list_item(st, item, list_depth) ==
    LET is_text == item.element.kind = "Text"
        numbered == Last(st.list_types)
        counted == IF numbered /\ is_text
                   THEN [st EXCEPT !.list_counters[Len(st.list_counters)] = @ + 1]
                   ELSE st
        prefix == IF numbered
                  THEN Decimal(Last(counted.list_counters)) \o <<46, Blank>>
                  ELSE <<Dash, Blank>>
        indented == push_str(counted, repeat_str(<<Blank, Blank>>, list_depth - 1))
        prefixed == IF is_text THEN push_str(indented, prefix) ELSE indented
        done == generate_element(prefixed, item.element, list_depth)
    IN  IF done.panicked THEN done
        ELSE IF is_text THEN push_str(done, <<Newline>>)
        ELSE done

\* the loop of the Paragraph arm
generate_children(st, children, list_depth) ==
    IF st.panicked \/ children = <<>> THEN st
    ELSE generate_children(generate_element(st, Head(children), list_depth),
                           Tail(children), list_depth)

\* the loop of the List arm
generate_list_items(st, items, list_depth) ==
    IF st.panicked \/ items = <<>> THEN st
    ELSE generate_list_items(generate_list_item(st, Head(items), list_depth),
                             Tail(items), list_depth)

\* lines 42-209
generate_element(st, element, list_depth) ==
    IF element.kind = "Header"
    THEN push_str(st, element.text \o <<Newline, Newline>>)
    ELSE IF element.kind = "Paragraph"
    THEN LET done == generate_children(st, element.elements, list_depth)
         IN  IF done.panicked THEN done ELSE push_str(done, <<Newline, Newline>>)
    ELSE IF element.kind = "List"
    THEN LET pushed == [st EXCEPT !.list_counters = Append(@, 0),
                                  !.list_types = Append(@, element.numbered)]
             done == generate_list_items(pushed, element.elements, list_depth + 1)
             popped == [done EXCEPT !.list_counters = Front(@),
                                    !.list_types = Front(@)]
         IN  IF done.panicked THEN done
             ELSE IF popped.list_counters = <<>> THEN push_str(popped, <<Newline>>)
             ELSE popped
    ELSE IF element.kind = "Text"
    THEN IF element.text # <<>> /\ Last(element.text) = Blank
         THEN push_str(st, element.text)
         ELSE push_str(st, element.text \o <<Blank>>)
    ELSE IF element.kind = "Hyperlink"
    THEN IF element.url = element.alt THEN push_str(st, element.url)
         ELSE push_str(st, LinkReference(element.title, element.url, element.alt))
    ELSE IF element.kind = "Image"
    THEN LET image_path == ImagePath(st.image_num)
             referenced == push_str(st, ImageReference(element.alt, image_path,
                                                       element.title))
         IN  [referenced EXCEPT
                 !.images = Insert(@, image_path, element.bytes),
                 !.image_num = @ + 1]
    ELSE generate_table(st, element.headers, element.rows)

\* document.bands and get_elements_by_band: a Document is the sequence of its
\* bands, a band the sequence of its elements
RECURSIVE Flatten(_)
Flatten(bands) == IF bands = <<>> THEN <<>> ELSE Head(bands) \o Flatten(Tail(bands))

\* Ok(Bytes::from(markdown))
TextOk(markdown) == [kind |-> "Ok", bytes |-> markdown]

\* one turn of the band loop: generate_element on the next element
GenerateElement ==
    /\ tpc = "bands"
    /\ ~tstate.panicked
    /\ tnext <= Len(Flatten(tdocument))
    /\ tstate' = generate_element(tstate, Flatten(tdocument)[tnext], 0)
    /\ tnext' = tnext + 1
    /\ UNCHANGED <<tdocument, tpc, tgenerated, parseVars, callVars, imageVars,
                   generateVars, cliVars>>

\* a panic of generate_element ends the call
GenerateAborts ==
    /\ tpc = "bands"
    /\ tstate.panicked
    /\ tpc' = "aborted"
    /\ UNCHANGED <<tdocument, tnext, tstate, tgenerated, parseVars, callVars,
                   imageVars, generateVars, cliVars>>

\* the band loop ends: Ok(Bytes::from(markdown)); images is dropped
GenerateReturn ==
    /\ tpc = "bands"
    /\ ~tstate.panicked
    /\ tnext > Len(Flatten(tdocument))
    /\ tpc' = "returned"
    /\ tgenerated' = TextOk(tstate.markdown)
    /\ UNCHANGED <<tdocument, tnext, tstate, parseVars, callVars, imageVars,
                   generateVars, cliVars>>

(***************************************************************************)
(* The command line tool, src/cli/src/main.rs.  args is the parsed command *)
(* line: whether --image-to-base64 is given, whether --output is absent    *)
(* ("none"), names the path of OUTPUT_FILE ("same") or another path        *)
(* ("other"), the extension of each positional path ("none": the path has  *)
(* no extension, "invalid": it is not UTF-8) and --base64-images.  env is  *)
(* what the calls main makes answer: whether fs::read succeeds on the      *)
(* image and on the input, whether Document::parse succeeds, whether       *)
(* generate returns bytes ("ok"), an error ("err") or panics ("panic"),    *)
(* the marker the generator hands to the image saver, and whether          *)
(* fs::write succeeds ("ok"), fails to create the file ("create") or fails *)
(* after truncating it ("partial").                                        *)
(***************************************************************************)
\* the extensions DocumentType::from_extension knows, as far as they are used
SupportedExtensions == {"pdf", "md"}

\* std::fs::write on a file in state file, answering outcome
fs_write(file, outcome) ==
    CASE outcome = "ok" -> "written"
      [] outcome = "create" -> file
      [] outcome = "partial" -> "truncated"

\* main returns: Ok(()) or the error of the failing step
Exits(value) ==
    /\ mpc' = "exited"
    /\ exit' = value

\* lines 64-69 and convert_image_to_base64: the image mode reads the image
\* and writes the file at --output; it looks at neither positional path
ImageToBase64 ==
    /\ mpc = "start"
    /\ args.image_to_base64
    /\ IF args.base64_output = "none" \/ ~env.image_readable
       THEN /\ Exits("Err")
            /\ UNCHANGED <<output_file, base64_file>>
       ELSE /\ Exits(IF env.writes = "ok" THEN "Ok" ELSE "Err")
            /\ IF args.base64_output = "same"
               THEN /\ output_file' = fs_write(output_file, env.writes)
                    /\ UNCHANGED base64_file
               ELSE /\ base64_file' = fs_write(base64_file, env.writes)
                    /\ UNCHANGED output_file
    /\ UNCHANGED <<args, env, saved, notCliVars>>

\* lines 72-112: both positional paths are present (clap requires them
\* without --image-to-base64); each needs an extension that is UTF-8
CheckExtensions ==
    /\ mpc = "start"
    /\ ~args.image_to_base64
    /\ IF \/ args.input_extension \in {"none", "invalid"}
          \/ args.output_extension \in {"none", "invalid"}
       THEN Exits("Err")
       ELSE /\ mpc' = "types"
            /\ UNCHANGED exit
    /\ UNCHANGED <<args, env, output_file, base64_file, saved, notCliVars>>

\* lines 114-128: DocumentType::from_extension of both extensions
DocumentTypes ==
    /\ mpc = "types"
    /\ IF /\ args.input_extension \in SupportedExtensions
          /\ args.output_extension \in SupportedExtensions
       THEN /\ mpc' = "read"
            /\ UNCHANGED exit
       ELSE Exits("Err")
    /\ UNCHANGED <<args, env, output_file, base64_file, saved, notCliVars>>

\* line 130: std::fs::read(input_file)?
ReadInput ==
    /\ mpc = "read"
    /\ IF env.readable
       THEN /\ mpc' = "parse"
            /\ UNCHANGED exit
       ELSE Exits("Err")
    /\ UNCHANGED <<args, env, output_file, base64_file, saved, notCliVars>>

\* line 133: Document::parse(&input_bytes, input_doc_type)?
ParseInput ==
    /\ mpc = "parse"
    /\ IF env.parses
       THEN /\ mpc' = "generate"
            /\ UNCHANGED exit
       ELSE Exits("Err")
    /\ UNCHANGED <<args, env, output_file, base64_file, saved, notCliVars>>

\* a generate step that creates the output file before it calls generate
GenerateOutputOpensFile ==
    /\ mpc = "generate"
    /\ saved' = (\/ saved
                 \/ /\ args.base64_images
                    /\ args.output_extension = "md"
                    /\ env.marker = "path")
    /\ output_file' = "truncated"
    /\ CASE env.generates = "ok" -> mpc' = "write" /\ UNCHANGED exit
         [] env.generates = "err" -> Exits("Err")
         [] env.generates = "panic" -> mpc' = "aborted" /\ exit' = "panicked"
    /\ UNCHANGED <<args, env, base64_file, notCliVars>>

\* lines 134-147: generate, or generate_with_saver whose saver writes an
\* empty file at every marker but "__base64__"; a panic of generate ends
\* the process
GenerateOutput ==
    /\ mpc = "generate"
    /\ saved' = (\/ saved
                 \/ /\ args.base64_images
                    /\ args.output_extension = "md"
                    /\ env.marker = "path")
    /\ CASE env.generates = "ok" -> mpc' = "write" /\ UNCHANGED exit
         [] env.generates = "err" -> Exits("Err")
         [] env.generates = "panic" -> mpc' = "aborted" /\ exit' = "panicked"
    /\ UNCHANGED <<args, env, output_file, base64_file, notCliVars>>

\* lines 148-155: std::fs::write(output_file, output)?, the message, Ok(())
WriteOutput ==
    /\ mpc = "write"
    /\ output_file' = fs_write(output_file, env.writes)
    /\ Exits(IF env.writes = "ok" THEN "Ok" ELSE "Err")
    /\ UNCHANGED <<args, env, base64_file, saved, notCliVars>>

(***************************************************************************)
(* The parts of the state a specification does not run                     *)
(***************************************************************************)
ParseLocals ==
    /\ pc = "start"
    /\ page = 0
    /\ obj = 0
    /\ ip = 0
    /\ elements = <<>>
    /\ text = <<>>
    /\ encodings = NoFonts
    /\ current_encoding = None
    /\ result = None

FirstCall == run = 1 /\ previous = None

NoParse ==
    /\ input = [format |-> "none"]
    /\ pc = "idle"
    /\ page = 0
    /\ obj = 0
    /\ ip = 0
    /\ elements = <<>>
    /\ text = <<>>
    /\ encodings = NoFonts
    /\ current_encoding = None
    /\ result = None
    /\ FirstCall

NoImage == image_data = Nothing /\ base64 = Nothing /\ decoded = Nothing

NoJob ==
    /\ job = Job(<<>>, TRUE, TRUE, 0)
    /\ gpc = "idle"
    /\ logged = 0
    /\ generated = None

NoText ==
    /\ tdocument = <<>>
    /\ tpc = "idle"
    /\ tnext = 1
    /\ tstate = GenerateState
    /\ tgenerated = None

NoArgs ==
    [image_to_base64 |-> FALSE, base64_output |-> "none", input_extension |-> "none",
     output_extension |-> "none", base64_images |-> FALSE]

NoEnv ==
    [image_readable |-> FALSE, readable |-> FALSE, parses |-> FALSE,
     generates |-> "err", marker |-> "none", writes |-> "create"]

NoCli ==
    /\ args = NoArgs
    /\ env = NoEnv
    /\ mpc = "idle"
    /\ exit = None
    /\ output_file = "untouched"
    /\ base64_file = "untouched"
    /\ saved = FALSE

(***************************************************************************)
(* The operator specification: one page, every operator of the loop.       *)
(***************************************************************************)
abc == <<97, 98, 99>>

def == <<100, 101, 102>>

\* "Item A", "Item B"
ItemA == <<73, 116, 101, 109, 32, 65>>

ItemB == <<73, 116, 101, 109, 32, 66>>

Marker == <<MarkerByte>>

SetFont(f) == Operation("Tf", <<Name(f), Integer(12)>>)

SetTextMatrix == Operation("Tm", <<>>)

ShowText(bytes) == Operation("Tj", <<String(bytes)>>)

EndTextObject == Operation("ET", <<>>)

BeginTextObject == Operation("BT", <<>>)

\* the fonts of a page: f1 with a CMap name lopdf has no table for
PageFonts == [f1 |-> "UniJIS-UCS2-H"]

Operations ==
    {SetFont("f1"), Operation("Tf", <<>>), SetTextMatrix, EndTextObject,
     BeginTextObject, ShowText(abc), ShowText(def), ShowText(Marker)}

\* the bytes of a text input: "A", "\n", "\r", and 0xD8 0xA0, which is the
\* UTF-8 form of U+0620 and ill-formed in any other arrangement
TextBytes == {65, 10, 13, 216, 160}

MaxTextLen == 3

Limits ==
    [pages |-> 1, ops |-> MaxOps, operations |-> [k \in 1..MaxOps |-> Operations],
     page_options |-> {PageHeader(TRUE, <<>>, PageFonts, 1, r) : r \in BOOLEAN}]

Init ==
    /\ input \in {PdfInput(l) : l \in BOOLEAN}
                 \cup {TextInput(b) : b \in SeqsUpTo(TextBytes, MaxTextLen)}
    /\ ParseLocals
    /\ FirstCall
    /\ NoImage
    /\ NoJob
    /\ NoText
    /\ NoCli

Next ==
    \/ LoadMem
    \/ NextPage(Limits)
    \/ Return
    \/ NextObject
    \/ EndObjects
    \/ OpTm(Limits)
    \/ OpTf(Limits)
    \/ OpShow(Limits)
    \/ OpET(Limits)
    \/ OpOther(Limits)
    \/ EndOfPage
    \/ TextParse

Spec == Init /\ [][Next]_vars

(***************************************************************************)
(* The list specification: the operators of list detection, on one page,   *)
(* with the item texts "Item A" and "Item B".                              *)
(***************************************************************************)
ItemOperations ==
    {SetTextMatrix, EndTextObject, ShowText(ItemA), ShowText(ItemB),
     ShowText(Marker)}

ItemLimits ==
    [pages |-> 1, ops |-> MaxOps + 1,
     operations |-> [k \in 1..(MaxOps + 1) |-> ItemOperations],
     page_options |-> {PageHeader(TRUE, <<>>, PageFonts, 1, TRUE)}]

\* a loadable PDF
InitPdf ==
    /\ input = PdfInput(TRUE)
    /\ ParseLocals
    /\ FirstCall
    /\ NoImage
    /\ NoJob
    /\ NoText
    /\ NoCli

NextItems ==
    \/ LoadMem
    \/ NextPage(ItemLimits)
    \/ Return
    \/ NextObject
    \/ EndObjects
    \/ OpTm(ItemLimits)
    \/ OpShow(ItemLimits)
    \/ OpET(ItemLimits)
    \/ EndOfPage

SpecItems == InitPdf /\ [][NextItems]_vars

(***************************************************************************)
(* The decoder specification: one Set font, then one Show text of any byte *)
(* string of the alphabet, under every kind of encoding register.          *)
(***************************************************************************)
\* 0x00, the marker, " ", "A", 0xA0 (no-break space in Latin-1, a
\* continuation byte in UTF-8), 0xD8 (a UTF-8 lead byte, the high byte of a
\* UTF-16 surrogate)
ShowBytes == {0, 1, 32, 65, 160, 216}

ShowStrings == SeqsUpTo(ShowBytes, MaxStrLen) \cup {Unimplemented, IdentityH}

\* f0 is not a font of the page
ShowFonts ==
    [f1 |-> "UniJIS-UCS2-H", f2 |-> "StandardEncoding", f3 |-> "Identity-H"]

ShowLimits ==
    [pages |-> 1, ops |-> 2,
     operations |-> [k \in 1..2 |->
         IF k = 1 THEN {SetFont(f) : f \in {"f0", "f1", "f2", "f3"}}
         ELSE {ShowText(b) : b \in ShowStrings}],
     page_options |-> {PageHeader(TRUE, <<>>, ShowFonts, 1, TRUE)}]

NextShow ==
    \/ LoadMem
    \/ NextPage(ShowLimits)
    \/ Return
    \/ NextObject
    \/ EndObjects
    \/ OpTf(ShowLimits)
    \/ OpShow(ShowLimits)
    \/ EndOfPage

SpecShow == InitPdf /\ [][NextShow]_vars

(***************************************************************************)
(* The resource specification: several pages, each with XObject resources, *)
(* and a short content.                                                    *)
(***************************************************************************)
MaxPages == 2

MaxXObjects == 2

\* image XObjects are streams whose dictionary has /Subtype /Image
XObjectKinds ==
    {XObject("Im1", "Stream", "Image", <<137, 80>>),
     XObject("Im2", "Stream", "Image", <<255, 216, 255>>),
     XObject("Fm1", "Stream", "Form", <<113>>)}

ResourceOptions ==
    {PageHeader(TRUE, x, PageFonts, 1, TRUE) : x \in SeqsUpTo(XObjectKinds, MaxXObjects)}
    \cup {PageHeader(FALSE, <<XObject("Im1", "Stream", "Image", <<137, 80>>)>>,
                     PageFonts, 1, TRUE),
          PageHeader(TRUE, <<XObject("Im1", "Dictionary", "Image", <<>>)>>,
                     PageFonts, 1, TRUE),
          PageHeader(TRUE, <<XObject("Im1", "Dictionary", "NotAName", <<>>)>>,
                     PageFonts, 1, TRUE)}

ResourceLimits ==
    [pages |-> MaxPages, ops |-> 1,
     operations |-> [k \in 1..1 |-> {SetTextMatrix, ShowText(abc)}],
     page_options |-> ResourceOptions]

NextResources ==
    \/ LoadMem
    \/ NextPage(ResourceLimits)
    \/ Return
    \/ NextObject
    \/ EndObjects
    \/ OpTm(ResourceLimits)
    \/ OpShow(ResourceLimits)
    \/ EndOfPage

SpecResources == InitPdf /\ [][NextResources]_vars

(***************************************************************************)
(* The font specification: several pages, each with its own font table,    *)
(* and a few Set font and Show text operations spread over them.           *)
(***************************************************************************)
\* "A" followed by 0xA0: "A" under the standard table, U+41A0 as UTF-16
AHigh == <<65, 160>>

FontStrings == {abc, AHigh}

FontTables ==
    {NoFonts, [f1 |-> "Identity-H"], [f1 |-> "StandardEncoding"]}

FontLimits ==
    [pages |-> MaxPages, ops |-> 3,
     operations |-> [k \in 1..3 |->
         {SetFont("f1")} \cup {ShowText(b) : b \in FontStrings}],
     page_options |-> {PageHeader(TRUE, <<>>, fonts, 1, TRUE) :
                          fonts \in FontTables}]

NextFonts ==
    \/ LoadMem
    \/ NextPage(FontLimits)
    \/ Return
    \/ NextObject
    \/ EndObjects
    \/ OpTf(FontLimits)
    \/ OpShow(FontLimits)
    \/ EndOfPage

SpecFonts == InitPdf /\ [][NextFonts]_vars

(***************************************************************************)
(* The operand specification: one Show text with any operand array of      *)
(* strings, integer and real spacing adjustments and a nested array, then  *)
(* a second, single-string Show text.                                      *)
(***************************************************************************)
MaxOperands == 2

LetterA == <<97>>

LetterB == <<98>>

\* integers below, at and above the threshold, a real below it, strings and
\* a nested array
OperandKinds ==
    {String(LetterA), String(LetterB), Integer(SpacingThreshold - 1),
     Integer(SpacingThreshold), Integer(50), Real(-2505),
     Array(<<String(LetterB), Integer(SpacingThreshold - 1)>>)}

ShowArray(arr) == Operation("TJ", <<Array(arr)>>)

OperandLimits ==
    [pages |-> 1, ops |-> 2,
     operations |-> [k \in 1..2 |->
         IF k = 1
         THEN {ShowText(LetterA)}
              \cup {ShowArray(arr) : arr \in SeqsUpTo(OperandKinds, MaxOperands)}
         ELSE {ShowText(LetterA)}],
     page_options |-> {PageHeader(TRUE, <<>>, PageFonts, 1, TRUE)}]

NextOperands ==
    \/ LoadMem
    \/ NextPage(OperandLimits)
    \/ Return
    \/ NextObject
    \/ EndObjects
    \/ OpShow(OperandLimits)
    \/ EndOfPage

SpecOperands == InitPdf /\ [][NextOperands]_vars

(***************************************************************************)
(* The Set font specification: several pages with a few operations, among  *)
(* them a Set font without operand and one whose first operand is a number.*)
(***************************************************************************)
SetFontOperations ==
    {SetFont("f1"), Operation("Tf", <<>>), Operation("Tf", <<Integer(12)>>),
     SetTextMatrix, ShowText(abc)}

SetFontLimits ==
    [pages |-> MaxPages, ops |-> 3,
     operations |-> [k \in 1..3 |-> SetFontOperations],
     page_options |-> {PageHeader(TRUE, <<>>, PageFonts, 1, TRUE)}]

NextSetFont ==
    \/ LoadMem
    \/ NextPage(SetFontLimits)
    \/ Return
    \/ NextObject
    \/ EndObjects
    \/ OpTm(SetFontLimits)
    \/ OpTf(SetFontLimits)
    \/ OpShow(SetFontLimits)
    \/ EndOfPage

SpecSetFont == InitPdf /\ [][NextSetFont]_vars

(***************************************************************************)
(* The codec specification: an image file of any bytes of the alphabet is  *)
(* encoded and decoded again.                                              *)
(***************************************************************************)
MaxImageLen == 4

\* 0x00, "M", 0xFB and 0xFF (their six-bit groups reach "+" and "/")
ImageByteValues == {0, 77, 251, 255}

ImageLimits ==
    [images |-> SeqsUpTo(ImageByteValues, MaxImageLen),
     types |-> {"png", "jpg"},
     titles |-> {"Image", "Restored Image"},
     sizes |-> {ImageDimension(None, None), ImageDimension("800px", "600px")}]

InitImage == NoParse /\ NoImage /\ NoJob /\ NoText /\ NoCli

NextImage ==
    \/ NewImageData(ImageLimits)
    \/ ToBase64
    \/ FromBase64(ImageLimits)

SpecImage == InitImage /\ [][NextImage]_vars

(***************************************************************************)
(* The generation specification: generate of pdf.rs on a Document, under   *)
(* every answer of the lowering and of the backend.                        *)
(***************************************************************************)
MaxWarnings == 3

Documents ==
    {<<>>, <<Text(abc)>>, <<Paragraph(<<Text(abc), Text(def)>>)>>,
     <<Image(<<137, 80>>, "Im1"), Text(abc)>>}

InitGenerate ==
    /\ NoParse
    /\ NoImage
    /\ job \in {Job(d, l, c, w) : d \in Documents, l \in BOOLEAN, c \in BOOLEAN,
                                  w \in 0..MaxWarnings}
    /\ gpc = "lower"
    /\ logged = 0
    /\ generated = None
    /\ NoText
    /\ NoCli

NextGenerate ==
    \/ GenerateDocument
    \/ Compile
    \/ LogWarning
    \/ ReturnPdf

SpecGenerate == InitGenerate /\ [][NextGenerate]_vars

(***************************************************************************)
(* The repeated specification: parse is called on a buffer, and called     *)
(* again on the same buffer.                                               *)
(***************************************************************************)
TwiceOperations ==
    {SetFont("f1"), Operation("Tf", <<>>), SetTextMatrix, ShowText(abc),
     ShowText(Marker)}

TwicePages ==
    {PageHeader(TRUE, x, PageFonts, c, r) :
        x \in {<<>>, <<XObject("Im1", "Stream", "Image", <<137, 80>>)>>,
               <<XObject("Im1", "Dictionary", "NotAName", <<>>)>>},
        c \in {1, 2}, r \in BOOLEAN}

TwiceLimits ==
    [pages |-> 1, ops |-> MaxOps - 2,
     operations |-> [k \in 1..MaxOps |-> TwiceOperations],
     page_options |-> TwicePages]

NextTwice ==
    \/ LoadMem
    \/ NextPage(TwiceLimits)
    \/ Return
    \/ NextObject
    \/ EndObjects
    \/ OpTm(TwiceLimits)
    \/ OpTf(TwiceLimits)
    \/ OpShow(TwiceLimits)
    \/ EndOfPage
    \/ TextParse
    \/ ParseAgain

SpecTwice == Init /\ [][NextTwice]_vars

(***************************************************************************)
(* The table specification: text generate on a Document that is one Table  *)
(* of Text headers and Text cells.                                         *)
(***************************************************************************)
MaxColumns == 2

MaxRows == 2

\* "a", "ab", and U+00E9, one character of two bytes
CellTexts == {<<97>>, <<97, 98>>, <<233>>}

TableItems == {ListItem(Text(t)) : t \in CellTexts}

Tables ==
    {Table(headers, rows) :
        headers \in SeqsUpTo(TableItems, MaxColumns),
        rows \in SeqsUpTo({TableRow(cells) : cells \in SeqsUpTo(TableItems, MaxColumns)},
                          MaxRows)}

InitText(documents) ==
    /\ NoParse
    /\ NoImage
    /\ NoJob
    /\ tdocument \in documents
    /\ tpc = "bands"
    /\ tnext = 1
    /\ tstate = GenerateState
    /\ tgenerated = None
    /\ NoCli

NextText ==
    \/ GenerateElement
    \/ GenerateAborts
    \/ GenerateReturn

InitTable == InitText({<<<<table>>>> : table \in Tables})

SpecTable == InitTable /\ [][NextText]_vars

(***************************************************************************)
(* The picture specification: text generate on a Document whose bands hold *)
(* Images at the top level, in a Paragraph and in a List, or a Table whose  *)
(* row has a cell and no header.                                           *)
(***************************************************************************)
MaxBands == 2

MaxBandLen == 2

\* alt "p", titles "x" and "y"
PictureElements ==
    {Picture(<<137, 80>>, <<112>>, <<120>>),
     Text(<<97>>),
     Paragraph(<<Picture(<<255, 216, 255>>, <<112>>, <<121>>), Text(<<97>>)>>),
     List(<<ListItem(Picture(<<137, 80>>, <<112>>, <<120>>)),
            ListItem(Text(<<97>>))>>, TRUE),
     Table(<<>>, <<TableRow(<<ListItem(Text(<<97>>))>>)>>)}

PictureDocuments == SeqsUpTo(SeqsUpTo(PictureElements, MaxBandLen), MaxBands)

InitPictures == InitText(PictureDocuments)

SpecPictures == InitPictures /\ [][NextText]_vars

(***************************************************************************)
(* The list specification: text generate on a Document that is a List of   *)
(* Text items and nested Lists, numbered or not, alone or followed by a    *)
(* second List.                                                            *)
(***************************************************************************)
MaxItems == 3

\* "b" followed by a blank
LetterBBlank == <<98, 32>>

NestedNumbered == List(<<ListItem(Text(LetterA)), ListItem(Text(LetterB))>>, TRUE)

NestedBulleted == List(<<ListItem(Text(LetterA))>>, FALSE)

ListItems ==
    {ListItem(Text(LetterA)), ListItem(Text(LetterBBlank)),
     ListItem(NestedNumbered), ListItem(NestedBulleted)}

Lists ==
    {List(items, numbered) :
        items \in SeqsUpTo(ListItems, MaxItems), numbered \in BOOLEAN}

ListDocuments ==
    {<<<<list>>>> : list \in Lists}
    \cup {<<<<list>>, <<NestedNumbered>>>> : list \in Lists}

InitLists == InitText(ListDocuments)

\* no element of these Documents can make generate_element panic
NextLists ==
    \/ GenerateElement
    \/ GenerateReturn

SpecLists == InitLists /\ [][NextLists]_vars

(***************************************************************************)
(* The command line specification: one run of main on every command line   *)
(* and every answer of the file system and the library.                    *)
(***************************************************************************)
Arguments ==
    [image_to_base64 : BOOLEAN,
     base64_output : {"none", "same", "other"},
     input_extension : {"none", "invalid", "xyz", "pdf"},
     output_extension : {"none", "invalid", "xyz", "md", "pdf"},
     base64_images : BOOLEAN]

Answers ==
    [image_readable : BOOLEAN,
     readable : BOOLEAN,
     parses : BOOLEAN,
     generates : {"ok", "err", "panic"},
     marker : {"none", "__base64__", "path"},
     writes : {"ok", "create", "partial"}]

InitCli ==
    /\ NoParse
    /\ NoImage
    /\ NoJob
    /\ NoText
    /\ args \in Arguments
    /\ env \in Answers
    /\ mpc = "start"
    /\ exit = None
    /\ output_file = "untouched"
    /\ base64_file = "untouched"
    /\ saved = FALSE

NextCli ==
    \/ ImageToBase64
    \/ CheckExtensions
    \/ DocumentTypes
    \/ ReadInput
    \/ ParseInput
    \/ GenerateOutput
    \/ WriteOutput

SpecCli == InitCli /\ [][NextCli]_vars

(***************************************************************************)
(* Properties                                                              *)
(***************************************************************************)
\* the operations of the first page of a parsed PDF
PageOps ==
    IF input.format = "pdf" /\ input.pages # <<>> THEN input.pages[1].ops
    ELSE <<>>

\* the step interprets `operation` in the operator loop
Interprets(operation) ==
    /\ pc = "ops"
    /\ ip' = ip + 1
    /\ input'.pages[page].ops[ip'] = operation

\* C1: the parse of one page without images whose operations are SetFont f1;
\* SetTextMatrix; ShowText "abc"; SetTextMatrix; ShowText "def" returns a
\* Document whose only element is a Paragraph of exactly the two Text
\* children "abc" and "def".
C1_ParagraphOfTwoRuns ==
    ( /\ pc = "done"
      /\ input.format = "pdf"
      /\ Len(input.pages) = 1
      /\ PageOps = <<SetFont("f1"), SetTextMatrix, ShowText(abc),
                     SetTextMatrix, ShowText(def)>> )
    => result = Ok(<<Paragraph(<<Text(abc), Text(def)>>)>>)

\* C2: once the item "Item A" has been produced with the marker, the
\* operations SetTextMatrix; ShowText "Item B"; ShowText 0x01 append the item
\* "Item B" to the same List: the Document holds exactly one List, of the
\* items "Item A" and "Item B", and nothing else.
C2_SecondItemJoinsTheList ==
    ( /\ pc = "done"
      /\ PageOps \in
            {<<ShowText(ItemA), ShowText(Marker), SetTextMatrix,
               ShowText(ItemB), ShowText(Marker)>>,
             <<ShowText(Marker), ShowText(ItemA), ShowText(Marker),
               SetTextMatrix, ShowText(ItemB), ShowText(Marker)>>} )
    => result = Ok(<<List(<<ListItem(Text(ItemA)), ListItem(Text(ItemB))>>, FALSE)>>)

\* C3: showing the marker while the last element is neither a List nor a
\* Paragraph (or there is no element) appends a new non-numbered List of
\* exactly one ListItem, whose Text is the pending buffer, and leaves the
\* pending buffer empty.
C3_MarkerOpensListWithItem ==
    [][ ( /\ Interprets(ShowText(Marker))
          /\ LastKind(elements) \notin {"List", "Paragraph"} )
        => ( /\ elements' = Append(elements, List(<<ListItem(Text(text))>>, FALSE))
             /\ text' = <<>> ) ]_vars

\* the candidates of the fallback chain in their order: strict UTF-8, UTF-16
\* big-endian, UTF-16 little-endian, Latin-1; the UTF-16 ones exist for an
\* even length of at least 2 only
Candidates(bytes) ==
    LET even == Len(bytes) >= 2 /\ Len(bytes) % 2 = 0
        be == from_utf16(UnitsBE(bytes))
        le == from_utf16(UnitsLE(bytes))
    IN  << [exists |-> from_utf8(bytes).ok, text |-> from_utf8(bytes).text],
           [exists |-> even /\ be.ok, text |-> be.text],
           [exists |-> even /\ le.ok, text |-> le.text],
           [exists |-> TRUE, text |-> [i \in 1..Len(bytes) |-> bytes[i]]] >>

Accepted(candidate) ==
    /\ candidate.exists
    /\ \E i \in 1..Len(candidate.text) :
          IsAlphanumeric(candidate.text[i]) \/ IsWhitespace(candidate.text[i])

HasSentinel(s) == Contains(s, Unimplemented) \/ Contains(s, IdentityH)

\* no step of the chain yields a text
Undecodable(encoding, bytes) ==
    /\ IsBlank(decode_text(encoding, bytes)) \/ HasSentinel(decode_text(encoding, bytes))
    /\ \A k \in 1..4 : ~Accepted(Candidates(bytes)[k])

\* what the chain is to return
ChainResult(encoding, bytes) ==
    LET standard == decode_text(encoding, bytes)
        accepted == {k \in 1..4 : Accepted(Candidates(bytes)[k])}
        first == CHOOSE k \in accepted : \A j \in accepted : k <= j
    IN  IF ~IsBlank(standard) /\ ~HasSentinel(standard) THEN standard
        ELSE IF accepted = {} THEN <<>>
        ELSE Candidates(bytes)[first].text

\* a code point a Rust String can hold
IsScalarValue(c) == c \in 0..1114111 /\ c \notin 55296..57343

\* C4: decode returns a string for every byte string (the empty one and the
\* ones of odd length included) and every encoding register (None included);
\* a run the chain cannot decode adds nothing to the pending buffer, and a
\* Show text never makes parse fail.
C4_DecodeIsTotal ==
    [][ \A b \in ShowStrings :
          Interprets(ShowText(b)) =>
             /\ pc' = "ops"
             /\ result' = None
             /\ Len(text') >= Len(text)
             /\ SubSeq(text', 1, Len(text)) = text
             /\ \A i \in 1..Len(text') : IsScalarValue(text'[i])
             /\ Undecodable(current_encoding, b) => text' = text ]_vars

\* C4: an undecodable run of odd length has been shown
C4_Witness ==
    /\ pc = "ops"
    /\ ip = 2
    /\ PageOps[2].operator = "Tj"
    /\ Len(PageOps[2].operands[1].bytes) = 3
    /\ Undecodable(current_encoding, PageOps[2].operands[1].bytes)
    /\ current_encoding = "Identity-H"
    /\ text = <<>>

\* C5: decode returns the standard decoding when it is not blank and holds
\* no failure sentinel, and otherwise the first accepted candidate of strict
\* UTF-8, UTF-16 big-endian, UTF-16 little-endian, Latin-1 (accepted: it
\* exists and holds an alphanumeric or whitespace character), or the empty
\* string when none is accepted.
C5_FallbackChain ==
    [][ \A b \in ShowStrings :
          Interprets(ShowText(b)) =>
             text' = text \o ChainResult(current_encoding, b) ]_vars

\* C5: a run was decoded by the UTF-16 big-endian candidate although the
\* little-endian one is acceptable too
C5_Witness ==
    /\ pc = "ops"
    /\ ip = 2
    /\ PageOps[2] = ShowText(<<160, 1>>)
    /\ current_encoding = None
    /\ text = <<40961>>
    /\ Accepted(Candidates(<<160, 1>>)[3])

RECURSIVE ImageBytes(_)
\* the bytes of the Image elements of a Document, in order
ImageBytes(document) ==
    IF document = <<>> THEN <<>>
    ELSE (IF Head(document).kind = "Image" THEN <<Head(document).bytes>> ELSE <<>>)
         \o ImageBytes(Tail(document))

RECURSIVE ImageStreams(_)
\* the contents of the XObject streams with Subtype Image, in order
ImageStreams(xobjects) ==
    IF xobjects = <<>> THEN <<>>
    ELSE (IF Head(xobjects).subtype = "Image" /\ Head(xobjects).variant = "Stream"
          THEN <<Head(xobjects).content>> ELSE <<>>)
         \o ImageStreams(Tail(xobjects))

RECURSIVE PageImageStreams(_)
PageImageStreams(pages) ==
    IF pages = <<>> THEN <<>>
    ELSE ImageStreams(Head(pages).xobjects) \o PageImageStreams(Tail(pages))

\* C6: the Image elements of the Document are, page by page, the XObject
\* resource entries whose Subtype is Image, each with the raw content of its
\* stream: a page with one Image XObject yields one Image element of the
\* stream's length.
C6_ImagePerImageXObject ==
    (pc = "done" /\ input.format = "pdf")
    => ImageBytes(result.document) = PageImageStreams(input.pages)

\* C7: for every ImageData x over any byte buffer, the empty one included,
\* from_base64(to_base64(x)) succeeds and its bytes are the bytes of x,
\* whatever title, type and dimension from_base64 is given.
C7_Base64RoundTrip ==
    decoded # Nothing
    => /\ decoded[1].ok
       /\ decoded[1].image.bytes = image_data[1].bytes

\* C7: a buffer of more than one group that ends in a padded group has been
\* encoded and decoded under another title.
C7_Witness ==
    /\ decoded # Nothing
    /\ image_data[1].bytes = <<255, 251, 0, 77>>
    /\ decoded[1].ok
    /\ decoded[1].image.title # image_data[1].title

\* the revealed part of the buffer stays as it is
InputKept ==
    IF input.format = "pdf"
    THEN /\ input'.format = "pdf"
         /\ input'.loadable = input.loadable
         /\ Len(input'.pages) >= Len(input.pages)
         /\ \A i \in 1..Len(input.pages) :
               /\ NewPage(input'.pages[i]) = NewPage(input.pages[i])
               /\ Len(input'.pages[i].ops) >= Len(input.pages[i].ops)
               /\ SubSeq(input'.pages[i].ops, 1, Len(input.pages[i].ops))
                     = input.pages[i].ops
         /\ (run > 1 => input' = input)
    ELSE input' = input

TextCodePoints == {10, 13, 65, 1568}

\* UTF-8 of a code point below U+0800
Utf8Encode(cp) ==
    IF cp < 128 THEN <<cp>> ELSE <<192 + (cp \div 64), 128 + (cp % 64)>>

RECURSIVE Utf8EncodeAll(_)
Utf8EncodeAll(cps) ==
    IF cps = <<>> THEN <<>> ELSE Utf8Encode(Head(cps)) \o Utf8EncodeAll(Tail(cps))

\* bytes are valid UTF-8 when they are the UTF-8 form of some string
IsUtf8(bytes) ==
    \E cps \in SeqsUpTo(TextCodePoints, Len(bytes)) : Utf8EncodeAll(cps) = bytes

\* C9: parse returns an error and no Document when the input is not valid for
\* the format: text parse fails exactly when the bytes are not valid UTF-8,
\* PDF parse fails when the buffer cannot be loaded, and an error carries no
\* Document, partial or other.
C9_ParseErrors ==
    /\ (input.format = "text" /\ pc # "start")
       => /\ pc \in {"done", "error"}
          /\ (pc = "error") <=> ~IsUtf8(input.bytes)
    /\ (input.format = "pdf" /\ ~input.loadable /\ pc # "start") => pc = "error"
    /\ pc = "error" => result = Err /\ DOMAIN result = {"kind"}
    /\ pc = "done" => result.kind = "Ok"
    /\ pc \notin {"done", "error"} => result = None

\* C9: text parse has failed on bytes that begin as text and end in a lead
\* byte without its continuation.
C9_Witness ==
    /\ input.format = "text"
    /\ input.bytes = <<65, 10, 216>>
    /\ pc = "error"
    /\ result = Err

\* C10: when the backend reports a fatal failure in compiling the lowered
\* Document, generate returns a GenerateError to its caller: it does not abort
\* and it returns no bytes.
C10_FatalBackendIsAnError ==
    (job.lowers /\ ~job.compiles /\ gpc \notin {"lower", "compile"})
    => (gpc = "returned" /\ generated = Err)

\* the longest string of a column, headers included, in characters
ColumnWidth(table, column) ==
    LET lengths == {Len(table.headers[column].element.text)}
                   \cup {Len(row.cells[column].element.text) :
                           row \in {table.rows[r] : r \in
                                      {r \in 1..Len(table.rows) :
                                         column <= Len(table.rows[r].cells)}}}
    IN  CHOOSE w \in lengths : \A v \in lengths : v <= w

RECURSIVE PaddedCells(_, _, _)
\* "| text" with blanks up to the width of the column and one more
PaddedCells(table, items, column) ==
    IF column > Len(items) THEN <<>>
    ELSE LET t == items[column].element.text
         IN  <<Bar, Blank>> \o t
             \o [k \in 1..(ColumnWidth(table, column) - Len(t)) |-> Blank]
             \o <<Blank>> \o PaddedCells(table, items, column + 1)

RECURSIVE Separator(_, _)
Separator(table, column) ==
    IF column > Len(table.headers) THEN <<>>
    ELSE <<Bar>> \o [k \in 1..(ColumnWidth(table, column) + 2) |-> Dash]
         \o Separator(table, column + 1)

RECURSIVE PaddedRows(_, _)
PaddedRows(table, r) ==
    IF r > Len(table.rows) THEN <<>>
    ELSE PaddedCells(table, table.rows[r].cells, 1) \o <<Bar, Newline>>
         \o PaddedRows(table, r + 1)

\* no row has more cells than there are headers
RowsFit(table) ==
    \A r \in 1..Len(table.rows) : Len(table.rows[r].cells) <= Len(table.headers)

\* C11: a Table of Text headers and Text cells whose rows have no more cells
\* than there are headers is rendered with every header and cell padded with
\* blanks to the length of the longest string of its column, and a separator
\* row of (that length + 2) dashes for each column.
C11_TableColumnsPadded ==
    (tpc # "bands" /\ RowsFit(tdocument[1][1]))
    => /\ tpc = "returned"
       /\ tgenerated.bytes =
             PaddedCells(tdocument[1][1], tdocument[1][1].headers, 1) \o <<Bar, Newline>>
             \o Separator(tdocument[1][1], 1) \o <<Bar, Newline>>
             \o PaddedRows(tdocument[1][1], 1) \o <<Newline>>

RECURSIVE ResourceImages(_)
\* the Image elements of a page's resources, in resource-dictionary order
ResourceImages(xobjects) ==
    IF xobjects = <<>> THEN <<>>
    ELSE (IF Head(xobjects).subtype = "Image" /\ Head(xobjects).variant = "Stream"
          THEN <<Image(Head(xobjects).content, Head(xobjects).name)>> ELSE <<>>)
         \o ResourceImages(Tail(xobjects))

\* C12: the page loop takes the pages in page-tree order; when it takes a
\* page, the Images of the page's resources are appended in
\* resource-dictionary order before any operator of the page is interpreted,
\* and the steps of the page's content leave every Image where it is, so no
\* text-derived element of a page precedes an Image of that page.
C12_ImagesBeforePageText ==
    [][/\ (pc = "pages" /\ pc' = "objects")
          => /\ page' = page + 1
             /\ elements' = elements \o ResourceImages(input'.pages[page'].xobjects)
       /\ (pc \in {"objects", "ops"})
          => /\ Len(elements') >= Len(elements) - 1
             /\ \A i \in 1..Len(elements) :
                   elements[i].kind = "Image"
                   => (i <= Len(elements') /\ elements'[i] = elements[i])]_vars

RECURSIVE PicturesOf(_)
\* the Image elements of a sequence of elements or list items, in traversal
\* order, through Paragraphs and Lists
PicturesOf(es) ==
    IF es = <<>> THEN <<>>
    ELSE LET e == IF "kind" \in DOMAIN Head(es) THEN Head(es) ELSE Head(es).element
         IN  (IF e.kind = "Image" THEN <<e>>
              ELSE IF e.kind \in {"Paragraph", "List"} THEN PicturesOf(e.elements)
              ELSE <<>>)
             \o PicturesOf(Tail(es))

\* the side mapping a result of generate carries
HandedImages(r) == IF "images" \in DOMAIN r THEN r.images ELSE NoImages

\* C13: text generate references the k-th Image met in traversal order, k
\* counted from 0 across bands and nesting levels, as image{k}.png, so the
\* filenames are pairwise distinct, and hands the caller a side mapping with
\* exactly one entry per Image, from its filename to the Image's bytes.
C13_ImageFilesAndMapping ==
    tpc = "returned"
    => LET pictures == PicturesOf(Flatten(tdocument))
       IN  /\ \A k \in 1..Len(pictures) :
                 Contains(tgenerated.bytes,
                          ImageReference(pictures[k].alt, ImagePath(k - 1),
                                         pictures[k].title))
           /\ \A j, k \in 1..Len(pictures) : j # k => ImagePath(j - 1) # ImagePath(k - 1)
           /\ DOMAIN HandedImages(tgenerated)
                 = {ImagePath(k - 1) : k \in 1..Len(pictures)}
           /\ \A k \in 1..Len(pictures) :
                 HandedImages(tgenerated)[ImagePath(k - 1)] = pictures[k].bytes

\* C14: warnings of the backend never change the outcome of PDF generate:
\* whenever the lowering and the compilation succeed, generate does not abort,
\* every warning is logged and nothing else is done with it, and what
\* generate returns is the PDF bytes of the Document, whatever the number of
\* warnings.
C14_WarningsAreOnlyLogged ==
    (job.lowers /\ job.compiles)
    => /\ gpc # "aborted"
       /\ logged <= job.warnings
       /\ gpc = "returned"
          => /\ logged = job.warnings
             /\ generated = GenerateOk(job.document)

\* C14: generate has returned the bytes after logging the most warnings.
C14_Witness ==
    /\ gpc = "returned"
    /\ job.lowers
    /\ job.compiles
    /\ job.warnings = MaxWarnings
    /\ logged = MaxWarnings
    /\ generated.kind = "Ok"

\* C15: on Set text matrix when the last element is not a Paragraph (there is
\* none, or it is a List, an Image or a Text), a new Paragraph with exactly one
\* Text child, which holds the pending buffer, is appended to the Document,
\* and the buffer is empty afterwards.
C15_TmOpensParagraph ==
    [][ ( /\ Interprets(SetTextMatrix)
          /\ LastKind(elements) # "Paragraph" )
        => ( /\ elements' = Append(elements, Paragraph(<<Text(text)>>))
             /\ text' = <<>> ) ]_vars

\* the step is the flush at the end of a page's content
EndsPage == pc = "ops" /\ pc' = "objects"

\* C16: at the end of a page, a pending buffer that is not empty, with a last
\* element that is neither a Paragraph nor a List (none, an Image or a Text),
\* is emitted as a Text element of its own at the top level; it is never
\* discarded.
C16_PageEndEmitsText ==
    [][ ( /\ EndsPage
          /\ text # <<>>
          /\ LastKind(elements) \notin {"Paragraph", "List"} )
        => elements' = Append(elements, Text(text)) ]_vars

\* C17: when the marker is shown and the last element is a Paragraph, the
\* Paragraph keeps exactly the children it had, a new List is opened right
\* after it, and the pending buffer becomes a ListItem of that List, not a
\* child of the Paragraph; the buffer is empty afterwards.
C17_MarkerAfterParagraph ==
    [][ ( /\ Interprets(ShowText(Marker))
          /\ LastKind(elements) = "Paragraph" )
        => ( /\ elements' = Append(elements, List(<<ListItem(Text(text))>>, FALSE))
             /\ text' = <<>> ) ]_vars

RECURSIVE AllText(_)
\* every character of the Texts of a sequence of elements or list items
AllText(es) ==
    IF es = <<>> THEN <<>>
    ELSE LET e == IF "kind" \in DOMAIN Head(es) THEN Head(es) ELSE Head(es).element
         IN  (IF e.kind = "Text" THEN e.text
              ELSE IF e.kind \in {"Paragraph", "List"} THEN AllText(e.elements)
              ELSE <<>>)
             \o AllText(Tail(es))

\* how often the character U+0001 stands in a string
MarkerChars(str) == Cardinality({i \in 1..Len(str) : str[i] = MarkerByte})

\* C18: the one-byte marker operand is never literal text: under every
\* encoding of the register, none included, showing the marker leaves no
\* character that comes from the marker byte in the pending buffer or in an
\* element, and a Text it flushes is the buffer from before the operand.
C18_MarkerIsNotText ==
    [][ Interprets(ShowText(Marker))
        => /\ MarkerChars(text' \o AllText(elements'))
                = MarkerChars(text \o AllText(elements))
           /\ Len(text' \o AllText(elements')) = Len(text \o AllText(elements)) ]_vars

\* C19: on Set text matrix with a Paragraph as last element, exactly one Text
\* child that holds the pending buffer is appended as the last child of that
\* Paragraph; its earlier children stay as they are and in their order, no
\* top-level element is added, and the buffer is empty afterwards.
C19_TmAppendsToParagraph ==
    [][ ( /\ Interprets(SetTextMatrix)
          /\ LastKind(elements) = "Paragraph" )
        => ( /\ Len(elements') = Len(elements)
             /\ Front(elements') = Front(elements)
             /\ Last(elements').kind = "Paragraph"
             /\ Last(elements').elements
                   = Append(Last(elements).elements, Text(text))
             /\ text' = <<>> ) ]_vars

\* C19: a Set text matrix has added "abc" as the second child of the Paragraph
\* that the first Set text matrix opened.
C19_Witness ==
    /\ pc = "ops"
    /\ ip = 3
    /\ PageOps = <<SetTextMatrix, ShowText(abc), SetTextMatrix>>
    /\ elements = <<Paragraph(<<Text(<<>>), Text(abc)>>)>>
    /\ text = <<>>

\* C20: when the marker is shown and the last element is a List, exactly one
\* ListItem with a Text of the pending buffer is appended as the last item of
\* that List; its earlier items and its numbered flag are unchanged, the
\* number of top-level elements is unchanged, and the buffer is empty
\* afterwards.
C20_MarkerAppendsToList ==
    [][ ( /\ Interprets(ShowText(Marker))
          /\ LastKind(elements) = "List" )
        => ( /\ Len(elements') = Len(elements)
             /\ Front(elements') = Front(elements)
             /\ Last(elements')
                   = List(Append(Last(elements).elements, ListItem(Text(text))),
                          Last(elements).numbered)
             /\ text' = <<>> ) ]_vars

\* C21: at the end of a page a non-empty pending buffer is appended as the
\* last Text child of a trailing Paragraph, or as the last ListItem of a
\* trailing List whose earlier items and numbered flag are unchanged; an
\* empty pending buffer adds nothing to the Document.
C21_PageEndFlush ==
    [][ EndsPage =>
          /\ text = <<>> => elements' = elements
          /\ (text # <<>> /\ LastKind(elements) = "Paragraph")
                => /\ Len(elements') = Len(elements)
                   /\ Front(elements') = Front(elements)
                   /\ Last(elements')
                         = Paragraph(Append(Last(elements).elements, Text(text)))
          /\ (text # <<>> /\ LastKind(elements) = "List")
                => /\ Len(elements') = Len(elements)
                   /\ Front(elements') = Front(elements)
                   /\ Last(elements')
                         = List(Append(Last(elements).elements,
                                       ListItem(Text(text))),
                                Last(elements).numbered) ]_vars

\* C21: the page ended with "Item B" pending and a trailing List holding
\* "Item A": the List holds both items, in that order.
C21_Witness ==
    /\ pc = "objects"
    /\ PageOps = <<ShowText(Marker), ShowText(ItemA), ShowText(Marker),
                   ShowText(ItemB)>>
    /\ input.pages[page].closed
    /\ elements = <<List(<<ListItem(Text(ItemA)), ListItem(Text(ItemB))>>,
                         FALSE)>>

\* the first accepted candidate of the fallback chain, the standard decoding
\* left out
FallbackOnly(bytes) ==
    LET accepted == {k \in 1..4 : Accepted(Candidates(bytes)[k])}
        first == CHOOSE k \in accepted : \A j \in accepted : k <= j
    IN  IF accepted = {} THEN <<>> ELSE Candidates(bytes)[first].text

\* the register after Set font n
RegisterAfter(n) == IF n \in DOMAIN encodings THEN encodings[n] ELSE None

\* C22: after a Set font naming font n the current-encoding register is the
\* page font table's entry for n when n is mapped and is unset when n is
\* unmapped; every later Show text of the page is decoded with that register
\* value until the next Set font; with an unset register the shown strings
\* are decoded by the fallback chain only.
C22_SetFontSelectsEncoding ==
    [][ /\ \A n \in {"f0", "f1", "f2", "f3"} :
             Interprets(SetFont(n)) => current_encoding' = RegisterAfter(n)
        /\ \A b \in ShowStrings :
             Interprets(ShowText(b))
                => /\ current_encoding' = current_encoding
                   /\ current_encoding # None
                         => text' = text \o ChainResult(current_encoding, b)
                   /\ current_encoding = None
                         => text' = text \o FallbackOnly(b) ]_vars

\* the register that the first k operations of page p give, from the fonts
\* and the Set fonts of that page alone
PageRegister(p, k) ==
    LET set == {j \in 1..k : p.ops[j].operator = "Tf"}
        last == CHOOSE j \in set : \A i \in set : i <= j
    IN  IF set = {} THEN None
        ELSE EncodingOf(p.fonts, p.ops[last].operands[1].name)

\* the step enters the operator loop of a page
StartsPage == pc = "objects" /\ pc' = "ops"

\* C23: the font-encoding table, the current-encoding register and the
\* pending buffer of a page depend only on that page: at the start of every
\* page the register is unset and the buffer is empty, the table is the
\* page's own, and every Show text is decoded with the register that the
\* page's own fonts and Set fonts give, whatever the earlier pages mapped or
\* set.
C23_PageStateIsLocal ==
    [][ /\ StartsPage => (current_encoding' = None /\ text' = <<>>)
        /\ pc' = "ops"
              => /\ encodings' = input'.pages[page'].fonts
                 /\ current_encoding' = PageRegister(input'.pages[page'], ip')
        /\ \A b \in FontStrings :
              Interprets(ShowText(b))
                 => text' = text \o ChainResult(PageRegister(input.pages[page], ip), b)
      ]_vars

\* C23: the first page set its font f1 (Identity-H) and showed "A\xA0" as
\* U+41A0; the second page, which maps f1 too, shows the same string without
\* a Set font and reads it with no encoding, as "A".
C23_Witness ==
    /\ pc = "ops"
    /\ page = 2
    /\ ip = 1
    /\ input.pages[1].fonts = [f1 |-> "Identity-H"]
    /\ input.pages[1].ops = <<SetFont("f1"), ShowText(AHigh)>>
    /\ input.pages[2].fonts = [f1 |-> "Identity-H"]
    /\ input.pages[2].ops = <<ShowText(AHigh)>>
    /\ elements = <<Paragraph(<<Text(<<16800>>)>>)>>
    /\ current_encoding = None
    /\ text = <<65>>

\* C24: End text object leaves every Document element unchanged and makes
\* the pending buffer end with a newline: it appends exactly one newline when
\* the buffer does not already end with one and changes nothing otherwise, so
\* two consecutive End text objects have the same effect as one.
C24_EndTextIsIdempotent ==
    [][ Interprets(EndTextObject) =>
          /\ elements' = elements
          /\ text' # <<>> /\ Last(text') = Newline
          /\ (text = <<>> \/ Last(text) # Newline) => text' = Append(text, Newline)
          /\ (text # <<>> /\ Last(text) = Newline) => text' = text ]_vars

\* C24: two End text objects in a row after "Item A" have left one newline
C24_Witness ==
    /\ pc = "ops"
    /\ ip = 3
    /\ PageOps = <<ShowText(ItemA), EndTextObject, EndTextObject>>
    /\ text = Append(ItemA, Newline)
    /\ elements = <<>>

\* the operand is a spacing adjustment below the threshold
IsWideSpacing(operand) ==
    \/ operand.type = "Integer" /\ operand.i < SpacingThreshold
    \/ operand.type = "Real" /\ operand.tenths < SpacingThreshold * 10

\* what a Show text of the operands is to add to the buffer: the decoded
\* strings and a blank for each wide spacing adjustment, in operand order,
\* and `closing` after each array
RECURSIVE ShownText(_, _, _)
ShownText(encoding, operands, closing) ==
    IF operands = <<>> THEN <<>>
    ELSE LET operand == Head(operands)
             shown == IF operand.type = "String"
                      THEN ChainResult(encoding, operand.bytes)
                      ELSE IF operand.type = "Array"
                      THEN ShownText(encoding, operand.arr, closing) \o closing
                      ELSE IF IsWideSpacing(operand) THEN <<Blank>>
                      ELSE <<>>
         IN  shown \o ShownText(encoding, Tail(operands), closing)

\* the operations of the operand specification
OperandOperations == OperandLimits.operations[1]

\* C25: after a Show text (single-string or array form) that contains no
\* marker, the pending buffer is its previous content followed by, in operand
\* order, the decoded text of every string operand (nested arrays included)
\* and one blank for every spacing adjustment below -100, with no other
\* character added; the Document's elements are unchanged.
C25_ShowAppendsDecodedText ==
    [][ \A operation \in OperandOperations :
          Interprets(operation)
             => /\ text' = text \o ShownText(current_encoding,
                                             operation.operands, <<>>)
                /\ elements' = elements ]_vars

\* C26: in a Show-text operand list a numeric spacing adjustment i appends
\* exactly one blank to the pending buffer when i < -100 and appends nothing
\* when i >= -100 (at exactly -100 and for every positive value in
\* particular); the strings add their decoded text and every array ends with
\* the blank that the Array arm pushes.
C26_SpacingThreshold ==
    [][ \A operation \in OperandOperations :
          Interprets(operation)
             => text' = text \o ShownText(current_encoding,
                                          operation.operands, <<Blank>>) ]_vars

\* the elements after one interpretation of the operator list `ops`, flush
\* included, started with the buffer `buffer` and the register `encoding`
RECURSIVE InterpretedOnce(_, _, _, _, _)
InterpretedOnce(ops, fonts, encoding, buffer, es) ==
    IF ops = <<>> THEN EndOfPageFlush(buffer, es)
    ELSE LET operation == Head(ops)
             rest == Tail(ops)
         IN  IF operation.operator = "Tm"
             THEN InterpretedOnce(rest, fonts, encoding, <<>>, TmFlush(buffer, es))
             ELSE IF operation.operator = "Tf"
             THEN InterpretedOnce(rest, fonts,
                                  EncodingOf(fonts, TfFontName(operation.operands).name),
                                  buffer, es)
             ELSE IF operation.operator \in {"Tj", "TJ"}
             THEN LET shown == collect_text(buffer, encoding, operation.operands, es)
                  IN  InterpretedOnce(rest, fonts, encoding, shown.text, shown.elements)
             ELSE IF operation.operator = "ET"
             THEN InterpretedOnce(rest, fonts, encoding, EndText(buffer), es)
             ELSE InterpretedOnce(rest, fonts, encoding, buffer, es)

\* the Document of pages whose operator lists are interpreted once each
RECURSIVE DocumentOfPages(_, _)
DocumentOfPages(pages, es) ==
    IF pages = <<>> THEN es
    ELSE LET p == Head(pages)
             scanned == es \o scan_resources(p).images
         IN  DocumentOfPages(Tail(pages),
                             IF p.contents = 0 THEN scanned
                             ELSE InterpretedOnce(p.ops, p.fonts, None, <<>>, scanned))

\* C27: each page's operator list is interpreted exactly once per parse,
\* however many content-stream objects the page has: the Document that parse
\* returns holds, for each page, the elements of one interpretation of the
\* whole operator list, with no text duplicated.
C27_PageInterpretedOnce ==
    (input.format = "pdf" /\ pc = "done")
        => result.document = DocumentOfPages(input.pages, <<>>)

\* everything the operations `ops` append to the pending buffer, in order,
\* when the page starts with the buffer, register and elements given: the
\* pushes of Show text and the newline of an End text object
RECURSIVE AppendedSince(_, _, _, _, _)
AppendedSince(ops, fonts, encoding, buffer, es) ==
    IF ops = <<>> THEN <<>>
    ELSE LET operation == Head(ops)
             rest == Tail(ops)
         IN  IF operation.operator = "Tm"
             THEN AppendedSince(rest, fonts, encoding, <<>>, TmFlush(buffer, es))
             ELSE IF operation.operator = "Tf"
             THEN AppendedSince(rest, fonts,
                                EncodingOf(fonts, TfFontName(operation.operands).name),
                                buffer, es)
             ELSE IF operation.operator \in {"Tj", "TJ"}
             THEN LET shown == collect_text(buffer, encoding, operation.operands, es)
                  IN  pushed_text(encoding, operation.operands)
                         \o AppendedSince(rest, fonts, encoding, shown.text,
                                          shown.elements)
             ELSE IF operation.operator = "ET"
             THEN (IF EndText(buffer) = buffer THEN <<>> ELSE <<Newline>>)
                     \o AppendedSince(rest, fonts, encoding, EndText(buffer), es)
             ELSE AppendedSince(rest, fonts, encoding, buffer, es)

\* C28: while a page is being interpreted (before its end-of-page flush) no
\* shown text is lost, duplicated or reordered: the texts added to the
\* Document since the page started, read in Document order, followed by the
\* pending buffer, are the concatenation of everything appended to the buffer
\* since the page started.  (The Document is empty when the one page of the
\* specification starts.)
C28_NoTextLostBeforeFlush ==
    (input.format = "pdf" /\ pc = "ops")
        => AllText(elements) \o text
              = AppendedSince(SubSeq(PageOps, 1, ip), input.pages[page].fonts,
                              None, <<>>, <<>>)

\* C28: Set text matrix put "abc" in a Paragraph, the marker put the next
\* "abc" there too and opened a List, and "def" is pending
C28_Witness ==
    /\ pc = "ops"
    /\ ip = 5
    /\ PageOps = <<ShowText(abc), SetTextMatrix, ShowText(abc),
                   ShowText(Marker), ShowText(def)>>
    /\ AllText(elements) = abc \o abc
    /\ text = def
    /\ Len(elements) = 2

\* the element `new` is `old` itself or an extension of it: of the same
\* kind, with the children of `old` first and in their order
Extends(new, old) ==
    \/ new = old
    \/ /\ new.kind = old.kind
       /\ old.kind \in {"Paragraph", "List"}
       /\ Len(new.elements) >= Len(old.elements)
       /\ SubSeq(new.elements, 1, Len(old.elements)) = old.elements

\* C29: during PDF parse every operator handler and the end-of-page flush
\* only append top-level elements or replace the last top-level element by
\* an extension of itself (same kind, earlier children kept in order): no
\* element before the last is modified, removed or reordered, and the number
\* of top-level elements never decreases.
C29_ElementsOnlyGrow ==
    [][ input.format = "pdf" =>
          /\ Len(elements') >= Len(elements)
          /\ \A i \in 1..(Len(elements) - 1) : elements'[i] = elements[i]
          /\ elements # <<>>
                => Extends(elements'[Len(elements)], Last(elements)) ]_vars

\* C29: the marker has extended the Paragraph by "abc" and appended a List
C29_Witness ==
    /\ pc = "ops"
    /\ ip = 3
    /\ PageOps = <<SetTextMatrix, ShowText(abc), ShowText(Marker)>>
    /\ elements = <<Paragraph(<<Text(<<>>), Text(abc)>>), List(<<>>, FALSE)>>
    /\ text = <<>>

\* the Paragraphs among the elements stand at the first place only
ParagraphOnlyFirst(es) ==
    \A i \in 1..Len(es) : es[i].kind = "Paragraph" => i = 1

\* C30: in every Document produced by PDF parse there is at most one
\* top-level Paragraph and it can only be the first element: a Paragraph is
\* opened only while the Document is still empty, so once any other element
\* (an Image, a List or a Text) has been appended no new Paragraph is ever
\* created.
C30_OneLeadingParagraph ==
    input.format = "pdf"
       => /\ ParagraphOnlyFirst(elements)
          /\ pc = "done" => (result.kind = "Ok" /\ ParagraphOnlyFirst(result.document))

\* C30: parse returned a Paragraph, then the List of a marker, then the bare
\* Text of a Set text matrix that met the List
C30_Witness ==
    /\ pc = "done"
    /\ PageOps = <<SetTextMatrix, ShowText(Marker), SetTextMatrix>>
    /\ result = Ok(<<Paragraph(<<Text(<<>>), Text(<<>>)>>), List(<<>>, FALSE),
                     Text(<<>>)>>)

\* no Text of a sequence of elements or list items holds a failure sentinel
RECURSIVE SentinelFree(_)
SentinelFree(es) ==
    IF es = <<>> THEN TRUE
    ELSE LET e == IF "kind" \in DOMAIN Head(es) THEN Head(es) ELSE Head(es).element
         IN  /\ IF e.kind = "Text" THEN ~HasSentinel(e.text)
                ELSE IF e.kind \in {"Paragraph", "List"} THEN SentinelFree(e.elements)
                ELSE TRUE
             /\ SentinelFree(Tail(es))

\* C31: no text stored in the Document by PDF parse holds a decoder failure
\* sentinel: decode never returns a string that contains "Unimplemented" or
\* "Identity-H", whatever the bytes and the declared encoding, so neither
\* the buffer a Show text filled nor a Text of the elements or of the
\* returned Document holds one.
C31_NoSentinelInDocument ==
    input.format = "pdf"
       => /\ ~HasSentinel(text)
          /\ SentinelFree(elements)
          /\ (pc = "done" /\ result.kind = "Ok") => SentinelFree(result.document)

\* a Set font without operand, and one whose first operand is not a name
BadSetFonts == {Operation("Tf", <<>>), Operation("Tf", <<Integer(12)>>)}

\* C32: a Set font operator with no operand, or whose first operand is not a
\* name, makes the whole PDF parse fail with an error: parse stops there and
\* returns the error, no Document, whatever elements the earlier operators
\* and the earlier pages built.
C32_BadSetFontFailsParse ==
    [][ /\ \A operation \in BadSetFonts :
             Interprets(operation) => (pc' = "error" /\ result' = Err)
        /\ pc = "error" => (pc' = "error" /\ result' = Err) ]_vars

\* C32: the first page put "abc" in a Paragraph; the Set font of the second
\* page has a number as first operand, and parse returned the error.
C32_Witness ==
    /\ pc = "error"
    /\ result = Err
    /\ page = 2
    /\ input.pages[1].ops = <<ShowText(abc)>>
    /\ input.pages[2].ops = <<Operation("Tf", <<Integer(12)>>)>>
    /\ elements = <<Paragraph(<<Text(abc)>>)>>

\* C33: text generate never aborts on a well-formed Document: for a Table in
\* which some row has more cells than there are headers, or in which some
\* header is not a Text, it still returns bytes or an error value.
C33_TextGenerateNeverAborts == tpc # "aborted"

\* the markdown of a Text: a blank follows unless the Text ends with one
TextMarkdown(str) ==
    IF str # <<>> /\ Last(str) = Blank THEN str ELSE Append(str, Blank)

\* the markdown of the items of a List at depth `depth`, after `count` Text
\* items of that List: each Text item is a line of indentation, "k. " (k its
\* rank among the Text items of its List) or "- ", and the text; a nested
\* List numbers its own items from 1 and does not count in the enclosing one
RECURSIVE ListMarkdown(_, _, _, _)
ListMarkdown(items, numbered, depth, count) ==
    IF items = <<>> THEN <<>>
    ELSE LET e == Head(items).element
             indent == repeat_str(<<Blank, Blank>>, depth - 1)
         IN  IF e.kind = "Text"
             THEN indent
                  \o (IF numbered THEN Decimal(count + 1) \o <<46, Blank>>
                      ELSE <<Dash, Blank>>)
                  \o TextMarkdown(e.text) \o <<Newline>>
                  \o ListMarkdown(Tail(items), numbered, depth, count + 1)
             ELSE indent
                  \o ListMarkdown(e.elements, e.numbered, depth + 1, 0)
                  \o ListMarkdown(Tail(items), numbered, depth, count)

\* the markdown of a sequence of top-level Lists
RECURSIVE ListsMarkdown(_)
ListsMarkdown(lists) ==
    IF lists = <<>> THEN <<>>
    ELSE ListMarkdown(Head(lists).elements, Head(lists).numbered, 1, 0)
         \o <<Newline>> \o ListsMarkdown(Tail(lists))

\* inside the List arm run on `list` from the state st, the two stacks have
\* the same length, one more than before the List, after each of its items,
\* and so inside each nested List
RECURSIVE StacksAgree(_, _, _)
StacksAgree(st, list, list_depth) ==
    LET pushed == [st EXCEPT !.list_counters = Append(@, 0),
                             !.list_types = Append(@, list.numbered)]
    IN  \A n \in 0..Len(list.elements) :
           LET at == generate_list_items(pushed, SubSeq(list.elements, 1, n),
                                         list_depth + 1)
           IN  /\ Len(at.list_counters) = Len(at.list_types)
               /\ Len(at.list_counters) = Len(st.list_counters) + 1
               /\ (n < Len(list.elements) /\ list.elements[n + 1].element.kind = "List")
                     => StacksAgree(at, list.elements[n + 1].element, list_depth + 1)

\* C34: in text generation the Text items of a numbered List are prefixed
\* "1. ", "2. ", ... in item order and those of a non-numbered List "- "; a
\* nested List numbers its own items from 1 without disturbing the numbering
\* of the enclosing List; the counter stack and the type stack have the same
\* length at every step and are both empty when generate returns.
C34_ListNumbering ==
    /\ Len(tstate.list_counters) = Len(tstate.list_types)
    /\ (tpc = "bands" /\ tnext <= Len(Flatten(tdocument)))
          => StacksAgree(tstate, Flatten(tdocument)[tnext], 0)
    /\ tpc = "returned"
          => /\ tgenerated = TextOk(ListsMarkdown(Flatten(tdocument)))
             /\ tstate.list_counters = <<>>
             /\ tstate.list_types = <<>>

\* C34: generate returned for the numbered List of "a", a nested numbered
\* List of "a" and "b", and "b ": the lines are "1. a ", "  1. a ", "  2. b ",
\* "2. b " and an empty one.
C34_Witness ==
    /\ tpc = "returned"
    /\ tdocument = <<<<List(<<ListItem(Text(LetterA)), ListItem(NestedNumbered),
                              ListItem(Text(LetterBBlank))>>, TRUE)>>>>
    /\ tgenerated.bytes
          = <<49, 46, 32, 97, 32, 10>>
            \o <<32, 32, 49, 46, 32, 97, 32, 10>>
            \o <<32, 32, 50, 46, 32, 98, 32, 10>>
            \o <<50, 46, 32, 98, 32, 10>>
            \o <<10>>

\* the extension checks of both paths succeed
ExtensionsPresent ==
    /\ args.input_extension \notin {"none", "invalid"}
    /\ args.output_extension \notin {"none", "invalid"}

\* both extensions name a document type
TypesKnown ==
    /\ args.input_extension \in SupportedExtensions
    /\ args.output_extension \in SupportedExtensions

\* the step main stands at does not succeed
StepFails ==
    \/ mpc = "start" /\ ~ExtensionsPresent
    \/ mpc = "types" /\ ~TypesKnown
    \/ mpc = "read" /\ ~env.readable
    \/ mpc = "parse" /\ ~env.parses
    \/ mpc = "generate" /\ env.generates # "ok"

\* every step before the write has succeeded
AllSucceeded ==
    /\ ExtensionsPresent
    /\ TypesKnown
    /\ env.readable
    /\ env.parses
    /\ env.generates = "ok"

\* main moves from one step to the next only in the order of the code, and
\* only when the step it leaves has succeeded
StepsInOrder ==
    /\ mpc' = "types" => mpc = "start" /\ ExtensionsPresent
    /\ mpc' = "read" => mpc = "types" /\ TypesKnown
    /\ mpc' = "parse" => mpc = "read" /\ env.readable
    /\ mpc' = "generate" => mpc = "parse" /\ env.parses
    /\ mpc' = "write" => mpc = "generate" /\ env.generates = "ok"

\* C35 as stated: The CLI writes the output file only after the extension
\* checks of both paths, the reading of the input, parse and generate have
\* all succeeded, in that order; if any of these steps fails the CLI
\* returns the error and the output file is neither created nor modified.
C35_WriteOnlyAfterAllSteps ==
    [][ /\ output_file' # output_file => mpc = "write" /\ AllSucceeded
        /\ StepsInOrder
        /\ StepFails => /\ mpc' = "exited"
                        /\ exit' = "Err"
                        /\ output_file = "untouched"
                        /\ output_file' = "untouched" ]_vars

\* C35, amended: without --image-to-base64, the CLI writes the output file
\* only in its last step, which it reaches only after the extension checks
\* of both paths, the reading of the input, parse and generate have all
\* succeeded, in that order; if any of these steps returns an error the CLI
\* returns it, if generate panics the process ends there, and in both cases
\* the output file is neither created nor modified.
C35_ConversionWritesLast ==
    [][ ~args.image_to_base64 =>
          /\ output_file' # output_file => mpc = "write" /\ AllSucceeded
          /\ StepsInOrder
          /\ StepFails =>
               /\ IF mpc = "generate" /\ env.generates = "panic"
                  THEN mpc' = "aborted" /\ exit' = "panicked"
                  ELSE mpc' = "exited" /\ exit' = "Err"
               /\ output_file = "untouched"
               /\ output_file' = "untouched"
          /\ (mpc' \in {"exited", "aborted"} /\ ~AllSucceeded)
                => output_file' = "untouched" ]_vars

\* a conversion whose steps all succeeded wrote the output file, after its
\* image saver had written an image file
C35_Witness ==
    /\ ~args.image_to_base64
    /\ args.base64_images
    /\ AllSucceeded
    /\ saved
    /\ mpc = "exited"
    /\ exit = "Ok"
    /\ output_file = "written"

=============================================================================
